---- MODULE Spec2Model ----
(***************************************************************************)
(* Recipe sharing API (Flask, Flask-RESTful, flask-jwt-extended,           *)
(* SQLAlchemy): the access-control and data-consistency layer.             *)
(*                                                                         *)
(* The persistent store is five tables (sets of rows).  Every request      *)
(* handler is one action, except the handlers whose pre-check and commit   *)
(* can interleave with another request: those are a Check action and a     *)
(* Commit action, with the request parked in pend between the two.         *)
(* last is the HTTP exchange of the step just taken: the request and the   *)
(* response the handler returned (NoExchange when the step returned no     *)
(* response yet).                                                          *)
(***************************************************************************)
EXTENDS Integers, Sequences, FiniteSets, TLC

VARIABLES users, categories, recipes, ingredients, ratings, pend, last

vars == <<users, categories, recipes, ingredients, ratings, pend, last>>

db == <<users, categories, recipes, ingredients, ratings>>

----------------------------------------------------------------------------
(* Bounds of the model *)

\* largest primary key the ratings table hands out
MaxRatingId == 2

\* largest primary key the recipes table hands out
MaxRecipeId == 2

\* largest primary key of a recipe when recipes are created one after another
MaxSeqRecipeId == 3

\* largest primary key the users table hands out
MaxUserId == 2

\* largest primary key the categories table hands out
MaxCategoryId == 2

\* largest primary key the ingredients table hands out
MaxIngredientId == 2

\* largest primary key of an ingredient when whole batches are created
MaxBulkIngredientId == 50

\* request workers that may be inside a handler at the same time
Workers == {"w1", "w2"}

----------------------------------------------------------------------------
(* Python values and their conversions *)

Digit(d) ==
  CASE d = 0 -> "0" [] d = 1 -> "1" [] d = 2 -> "2" [] d = 3 -> "3" [] d = 4 -> "4"
    [] d = 5 -> "5" [] d = 6 -> "6" [] d = 7 -> "7" [] d = 8 -> "8" [] d = 9 -> "9"

DigitValue(c) ==
  CASE c = "0" -> 0 [] c = "1" -> 1 [] c = "2" -> 2 [] c = "3" -> 3 [] c = "4" -> 4
    [] c = "5" -> 5 [] c = "6" -> 6 [] c = "7" -> 7 [] c = "8" -> 8 [] c = "9" -> 9

\* str(n) of a non-negative int: its decimal digits, as a sequence of characters
RECURSIVE str(_)
str(n) == IF n < 10 THEN <<Digit(n)>> ELSE str(n \div 10) \o <<Digit(n % 10)>>

\* a Python int and a Python str are values of different types
PyInt(n) == [t |-> "int", v |-> n]
PyStr(s) == [t |-> "str", v |-> s]
PyNone == [t |-> "none", v |-> 0]

\* Python ==: values of different types are never equal
py_eq(a, b) == a.t = b.t /\ a.v = b.v
py_ne(a, b) == ~py_eq(a, b)

\* the value an INTEGER column compares with or stores for a bound parameter:
\* the store converts a numeric string to the integer it spells
RECURSIVE ParseInt(_)
ParseInt(s) ==
  IF Len(s) = 1 THEN DigitValue(s[1])
  ELSE 10 * ParseInt(SubSeq(s, 1, Len(s) - 1)) + DigitValue(s[Len(s)])

SqlInt(x) == IF x.t = "int" THEN x.v ELSE ParseInt(x.v)

----------------------------------------------------------------------------
(* Tokens *)

\* create_access_token(identity=...): the token carries the identity as given
create_access_token(identity) == [kind |-> "access", sub |-> identity.v]

\* the access token register and login issue to the user with primary key id
IssuedToken(id) == create_access_token(PyStr(str(id)))

NoToken == [kind |-> "absent", sub |-> <<>>]
BadToken == [kind |-> "invalid", sub |-> <<>>]

\* every token a request may carry
Tokens == {IssuedToken(u.id) : u \in users} \cup {NoToken, BadToken}

\* verify_jwt_in_request() succeeds
jwt_ok(tok) == tok.kind = "access"

\* get_jwt_identity(): the identity the token was created with, a str
get_jwt_identity(tok) == IF tok.kind = "access" THEN PyStr(tok.sub) ELSE PyNone

----------------------------------------------------------------------------
(* The store *)

\* Query.get(key): the row whose primary key the store finds equal to key
QueryGet(table, key) ==
  IF key.t = "none" THEN {} ELSE {row \in table : row.id = SqlInt(key)}

\* a lookup by primary key alone, under whatever recipe the path names
filter_by_id(table, id, recipe_id) == {row \in table : row.id = id}

\* Query.filter_by(id=id, recipe_id=recipe_id): the rows of that key under
\* that recipe
filter_by(table, id, recipe_id) ==
  {row \in table : row.id = id /\ row.recipe_id = recipe_id}

\* primary key of the next inserted row (SQLite rowid: largest key in use + 1)
NextId(table) ==
  IF table = {} THEN 1
  ELSE (CHOOSE m \in {row.id : row \in table} :
          \A row \in table : row.id <= m) + 1

\* the ratings table declared without its unique constraint
no_unique_user_recipe_rating(rows) == TRUE

\* Rating.__table_args__: UniqueConstraint('user_id', 'recipe_id')
unique_user_recipe_rating(rows) ==
  \A x, y \in rows :
    (x.user_id = y.user_id /\ x.recipe_id = y.recipe_id) => x.id = y.id

----------------------------------------------------------------------------
(* Requests and responses *)

Idle == [op |-> "idle", tok |-> NoToken, rid |-> 0]

EmptyBody == [empty |-> TRUE]

\* a request or response body with content
Body(data) == [empty |-> FALSE, data |-> data]

NoExchange ==
  [op |-> "none", tok |-> NoToken, rid |-> 0, xid |-> 0, body |-> EmptyBody,
   status |-> 0, msg |-> ""]

Exchange(op, tok, rid, xid, body, status, msg) ==
  [op |-> op, tok |-> tok, rid |-> rid, xid |-> xid, body |-> body,
   status |-> status, msg |-> msg]

\* the user a token was issued to (the set is empty for no or an invalid token)
TokenUser(tok) == {u \in users : IssuedToken(u.id) = tok}

----------------------------------------------------------------------------
(* Ratings: src/app/api/v1/ratings.py *)

\* score values a request body may carry (RatingCreateSchema accepts 1..5)
ScoreInputs == {0, 2, 5}

RatingBodies == {EmptyBody} \cup {[empty |-> FALSE, score |-> s] : s \in ScoreInputs}

\* the schema with no Range validator on score
score_unchecked(body) == TRUE

\* RatingCreateSchema.score: fields.Int(validate=Range(min=1, max=5))
score_valid(body) == body.score >= 1 /\ body.score <= 5

\* the handler with no "except IntegrityError" clause: the generic handler answers
rating_integrity_error_unhandled(tok, rid, body) ==
  Exchange("rating_post", tok, rid, 0, body, 500, "Error adding rating")

\* RatingListResource.post, "except IntegrityError": rollback and 400
rating_integrity_error(tok, rid, body) ==
  Exchange("rating_post", tok, rid, 0, body, 400, "already rated")

\* RatingListResource.post up to the existing-rating check; a request that
\* passes it is parked until its commit
RatingPostCheck(w, tok, rid) ==
  /\ pend[w] = Idle
  /\ UNCHANGED db
  /\ LET current_user_id == get_jwt_identity(tok)
         reply(status, msg) ==
           /\ last' = Exchange("rating_post", tok, rid, 0, EmptyBody, status, msg)
           /\ UNCHANGED pend
     IN  IF ~jwt_ok(tok) THEN reply(401, "unauthorized")
         ELSE IF QueryGet(recipes, PyInt(rid)) = {}
           THEN reply(404, "Recipe not found")
         ELSE IF \E x \in ratings :
                   x.user_id = SqlInt(current_user_id) /\ x.recipe_id = rid
           THEN reply(400, "already rated, use PUT")
         ELSE /\ pend' = [pend EXCEPT ![w] =
                            [op |-> "rating_post", tok |-> tok, rid |-> rid]]
              /\ last' = NoExchange

\* RatingListResource.post from request.get_json() to the response
RatingPostCommit(w, body) ==
  /\ pend[w].op = "rating_post"
  /\ pend' = [pend EXCEPT ![w] = Idle]
  /\ UNCHANGED <<users, categories, recipes, ingredients>>
  /\ LET tok == pend[w].tok
         rid == pend[w].rid
         new_rating == [id |-> NextId(ratings), score |-> body.score,
                        user_id |-> SqlInt(get_jwt_identity(tok)),
                        recipe_id |-> rid]
         reply(status, msg) ==
           last' = Exchange("rating_post", tok, rid, 0, body, status, msg)
     IN  IF body.empty
           THEN reply(400, "No input data provided") /\ UNCHANGED ratings
         ELSE IF ~score_valid(body)
           THEN reply(422, "Validation failed") /\ UNCHANGED ratings
         ELSE IF ~unique_user_recipe_rating(ratings \cup {new_rating})
           THEN \* the INSERT raises IntegrityError; the session is rolled back
                /\ last' = rating_integrity_error(tok, rid, body)
                /\ UNCHANGED ratings
         ELSE /\ new_rating.id <= MaxRatingId
              /\ ratings' = ratings \cup {new_rating}
              /\ last' = Exchange("rating_post", tok, rid, new_rating.id, body,
                                  201, "Rating added successfully")

\* the owner-or-admin rule of recipes applied to ratings
not_rating_owner_nor_admin(rating, current_user_id) ==
  /\ py_ne(PyInt(rating.user_id), current_user_id)
  /\ \A u \in QueryGet(users, current_user_id) : ~u.is_admin

\* RatingDetailResource.put/delete: "if rating.user_id != current_user_id",
\* the column value (an int) against the token identity
not_rating_owner(rating, current_user_id) ==
  py_ne(PyInt(rating.user_id), current_user_id)

\* RatingDetailResource.put
RatingPut(tok, rid, xid) ==
  /\ UNCHANGED <<users, categories, recipes, ingredients, pend>>
  /\ LET current_user_id == get_jwt_identity(tok)
         found == filter_by(ratings, xid, rid)
         rating == CHOOSE x \in found : TRUE
         reply(status, msg) ==
           last' = Exchange("rating_put", tok, rid, xid, EmptyBody, status, msg)
     IN  IF ~jwt_ok(tok) THEN reply(401, "unauthorized") /\ UNCHANGED ratings
         ELSE IF QueryGet(recipes, PyInt(rid)) = {}
           THEN reply(404, "Recipe not found") /\ UNCHANGED ratings
         ELSE IF found = {}
           THEN reply(404, "Rating not found") /\ UNCHANGED ratings
         ELSE IF not_rating_owner(rating, current_user_id)
           THEN reply(403, "You can only update your own ratings")
                /\ UNCHANGED ratings
         ELSE \E body \in RatingBodies :
           LET answer(status, msg) ==
                 last' = Exchange("rating_put", tok, rid, xid, body, status, msg)
           IN  IF body.empty
                 THEN answer(400, "No input data provided") /\ UNCHANGED ratings
               ELSE IF ~score_valid(body)
                 THEN answer(422, "Validation failed") /\ UNCHANGED ratings
               ELSE /\ ratings' = (ratings \ {rating})
                                    \cup {[rating EXCEPT !.score = body.score]}
                    /\ answer(200, "Rating updated successfully")

\* RatingDetailResource.delete
RatingDelete(tok, rid, xid) ==
  /\ UNCHANGED <<users, categories, recipes, ingredients, pend>>
  /\ LET current_user_id == get_jwt_identity(tok)
         found == filter_by(ratings, xid, rid)
         rating == CHOOSE x \in found : TRUE
         reply(status, msg) ==
           last' = Exchange("rating_delete", tok, rid, xid, EmptyBody, status, msg)
     IN  IF ~jwt_ok(tok) THEN reply(401, "unauthorized") /\ UNCHANGED ratings
         ELSE IF QueryGet(recipes, PyInt(rid)) = {}
           THEN reply(404, "Recipe not found") /\ UNCHANGED ratings
         ELSE IF found = {}
           THEN reply(404, "Rating not found") /\ UNCHANGED ratings
         ELSE IF not_rating_owner(rating, current_user_id)
           THEN reply(403, "You can only delete your own ratings")
                /\ UNCHANGED ratings
         ELSE /\ ratings' = ratings \ {rating}
              /\ reply(200, "Rating deleted successfully")

\* RatingListResource.get
RatingList(tok, rid) ==
  /\ UNCHANGED <<db, pend>>
  /\ LET found == QueryGet(recipes, PyInt(rid))
         recipe == CHOOSE r \in found : TRUE
         reply(status, msg, data) ==
           last' = [Exchange("rating_list", tok, rid, 0, EmptyBody, status, msg)
                      EXCEPT !.body = data]
     IN  IF found = {} THEN reply(404, "Recipe not found", EmptyBody)
         ELSE reply(200, "Ratings retrieved successfully",
                    Body([recipe_id |-> rid, recipe_title |-> recipe.title,
                          ratings |-> {x \in ratings : x.recipe_id = rid}]))

\* RatingDetailResource.get
RatingGet(tok, rid, xid) ==
  /\ UNCHANGED <<db, pend>>
  /\ LET found == filter_by(ratings, xid, rid)
         reply(status, msg, data) ==
           last' = [Exchange("rating_get", tok, rid, xid, EmptyBody, status, msg)
                      EXCEPT !.body = data]
     IN  IF QueryGet(recipes, PyInt(rid)) = {}
           THEN reply(404, "Recipe not found", EmptyBody)
         ELSE IF found = {} THEN reply(404, "Rating not found", EmptyBody)
         ELSE reply(200, "Rating retrieved successfully",
                    Body([rating |-> CHOOSE x \in found : TRUE]))

\* a float, held as the number of hundredths it has
PyFloat(hundredths) == [t |-> "float", v |-> hundredths]

\* sum([rating.score for rating in rows])
RECURSIVE sum_scores(_)
sum_scores(rows) ==
  IF rows = {} THEN 0
  ELSE LET x == CHOOSE r \in rows : TRUE
       IN  x.score + sum_scores(rows \ {x})

\* round(total / count, 2), in hundredths: the nearest hundredth, and the
\* even one of the two when the quotient lies halfway between them
round2(total, count) ==
  LET q == (100 * total) \div count
      rem == (100 * total) % count
  IN  IF 2 * rem > count THEN q + 1
      ELSE IF 2 * rem = count /\ q % 2 = 1 THEN q + 1
      ELSE q

\* Recipe.average_rating()
average_rating(recipe) ==
  LET rows == {x \in ratings : x.recipe_id = recipe.id}
  IN  IF Cardinality(rows) = 0 THEN PyInt(0)
      ELSE PyFloat(round2(sum_scores(rows), Cardinality(rows)))

\* the schema method returning the model's value as it is
get_average_rating_unguarded(recipe) == average_rating(recipe)

\* RecipeResponseSchema.get_average_rating:
\* "round(avg, 2) if avg else None", a value already rounded to hundredths
get_average_rating(recipe) ==
  LET avg == average_rating(recipe)
  IN  IF avg.v # 0 THEN avg ELSE PyNone

\* the distribution of RecipeRatingStatsResource.get: ratings per score
distribution(rows) == [k \in 1 .. 5 |-> Cardinality({r \in rows : r.score = k})]

\* RecipeRatingStatsResource.get
RatingStats(rid) ==
  /\ UNCHANGED <<db, pend>>
  /\ LET found == QueryGet(recipes, PyInt(rid))
         recipe == CHOOSE r \in found : TRUE
         rows == {x \in ratings : x.recipe_id = rid}
         total_ratings == Cardinality(rows)
         reply(status, msg, data) ==
           last' = [Exchange("rating_stats", NoToken, rid, 0, EmptyBody, status, msg)
                      EXCEPT !.body = data]
     IN  IF found = {} THEN reply(404, "Recipe not found", EmptyBody)
         ELSE IF rows = {}
           THEN reply(200, "No ratings yet for this recipe",
                      Body([recipe_title |-> recipe.title,
                            total_ratings |-> 0, average_rating |-> PyNone,
                            distribution |-> [k \in 1 .. 5 |-> 0]]))
         ELSE reply(200, "Rating statistics retrieved successfully",
                    Body([recipe_title |-> recipe.title,
                          total_ratings |-> total_ratings,
                          average_rating |->
                            PyFloat(round2(sum_scores(rows), total_ratings)),
                          distribution |-> distribution(rows)]))

----------------------------------------------------------------------------
(* Slugs: src/app/api/v1/recipes.py *)

UpperCase ==
  <<"A", "B", "C", "D", "E", "F", "G", "H", "I", "J", "K", "L", "M",
    "N", "O", "P", "Q", "R", "S", "T", "U", "V", "W", "X", "Y", "Z">>

LowerCase ==
  <<"a", "b", "c", "d", "e", "f", "g", "h", "i", "j", "k", "l", "m",
    "n", "o", "p", "q", "r", "s", "t", "u", "v", "w", "x", "y", "z">>

Digits == {"0", "1", "2", "3", "4", "5", "6", "7", "8", "9"}

\* characters \s matches
WhiteSpace == {" ", "\t", "\n"}

\* str.lower()
lower(s) ==
  [i \in 1 .. Len(s) |->
     IF \E k \in 1 .. Len(UpperCase) : UpperCase[k] = s[i]
       THEN LowerCase[CHOOSE k \in 1 .. Len(UpperCase) : UpperCase[k] = s[i]]
       ELSE s[i]]

\* str.replace(' ', '-')
replace_spaces(s) == [i \in 1 .. Len(s) |-> IF s[i] = " " THEN "-" ELSE s[i]]

slug_char(c) ==
  c = "-" \/ c \in Digits \/ \E k \in 1 .. Len(LowerCase) : LowerCase[k] = c

\* re.sub(r'[^a-z0-9-]', '', s)
strip_special(s) == SelectSeq(s, slug_char)

\* re.sub(r'-+', '-', s)
RECURSIVE collapse_hyphens(_)
collapse_hyphens(s) ==
  IF Len(s) <= 1 THEN s
  ELSE IF s[1] = "-" /\ s[2] = "-" THEN collapse_hyphens(Tail(s))
  ELSE <<s[1]>> \o collapse_hyphens(Tail(s))

\* str.strip('-')
RECURSIVE strip_hyphens(_)
strip_hyphens(s) ==
  IF s = <<>> THEN s
  ELSE IF s[1] = "-" THEN strip_hyphens(Tail(s))
  ELSE IF s[Len(s)] = "-" THEN strip_hyphens(SubSeq(s, 1, Len(s) - 1))
  ELSE s

\* the slug candidate of a title, as post and put derive it
derive_slug(title) ==
  strip_hyphens(collapse_hyphens(strip_special(replace_spaces(lower(title)))))

\* the loop with "counter += 1" ahead of the f-string: suffixes start at
\* counter + 1
unique_slug_skipping(base_slug, new_slug, counter, taken) ==
  IF new_slug \in taken
    THEN LET free(k) == (base_slug \o <<"-">> \o str(k)) \notin taken
             k == CHOOSE n \in (counter + 1) .. (counter + 1 + Cardinality(taken)) :
                    free(n) /\ \A j \in (counter + 1) .. (n - 1) : ~free(j)
         IN  base_slug \o <<"-">> \o str(k)
    ELSE new_slug

\* "while Recipe.query.filter_by(slug=new_slug).first():
\*      new_slug = f'{base_slug}-{counter}'; counter += 1"
RECURSIVE unique_slug(_, _, _, _)
unique_slug(base_slug, new_slug, counter, taken) ==
  IF new_slug \in taken
    THEN unique_slug(base_slug, base_slug \o <<"-">> \o str(counter), counter + 1, taken)
    ELSE new_slug

\* the slug column declared without unique=True
no_unique_recipe_slug(rows) == TRUE

\* Recipe.slug: Column(String(200), unique=True)
unique_recipe_slug(rows) ==
  \A x, y \in rows : x.slug = y.slug => x.id = y.id

----------------------------------------------------------------------------
(* Recipes: src/app/api/v1/recipes.py *)

MinTitleLen == 3
MaxTitleLen == 200

\* re.match(r'^\S.*\S$|^\S$', s): "." matches every character but "\n", and
\* "$" matches at the end and before a "\n" that ends the string
regexp_matches(s) ==
  LET no_newline(a, b) == \A i \in a .. b : s[i] # "\n"
      ends_at(n) == /\ n >= 1 /\ s[1] \notin WhiteSpace
                    /\ \/ n = 1
                       \/ n >= 2 /\ s[n] \notin WhiteSpace /\ no_newline(2, n - 1)
  IN  \/ ends_at(Len(s))
      \/ Len(s) >= 2 /\ s[Len(s)] = "\n" /\ ends_at(Len(s) - 1)

\* RecipeCreateSchema.title: Length(min=3, max=200), Regexp(^\S.*\S$|^\S$)
title_valid(title) ==
  /\ Len(title) >= MinTitleLen /\ Len(title) <= MaxTitleLen
  /\ regexp_matches(title)

Has(body, key) == key \in DOMAIN body.data

\* recipe_create_schema.load: title and category_id are required (the
\* fields that no modelled column stores are taken as valid)
recipe_create_valid(body) ==
  /\ Has(body, "title") /\ title_valid(body.data.title)
  /\ Has(body, "category_id")

\* recipe_update_schema.load: every field is optional
recipe_update_valid(body) == Has(body, "title") => title_valid(body.data.title)

\* the permission check with its admin test inverted
not_owner_and_admin(recipe, current_user_id, user) ==
  py_ne(PyInt(recipe.user_id), current_user_id) /\ user.is_admin

\* "recipe.user_id != current_user_id and not user.is_admin"
not_owner_nor_admin(recipe, current_user_id, user) ==
  py_ne(PyInt(recipe.user_id), current_user_id) /\ ~user.is_admin

\* a response, for a handler that is done
Done(ex) == [parked |-> FALSE, reply |-> ex]
\* a request that passed its checks and waits for its commit
Parked(req) == [parked |-> TRUE, req |-> req]

\* RecipeListResource.post up to db.session.add: the checks and the slug
recipe_post_check(tok, body) ==
  LET reply(status, msg) == Done(Exchange("recipe_post", tok, 0, 0, body, status, msg))
  IN  IF ~jwt_ok(tok) THEN reply(401, "unauthorized")
      ELSE IF body.empty THEN reply(400, "No input data provided")
      ELSE IF ~recipe_create_valid(body) THEN reply(422, "Validation failed")
      ELSE IF QueryGet(categories, PyInt(body.data.category_id)) = {}
        THEN reply(404, "Category not found")
      ELSE LET base_slug == derive_slug(body.data.title)
           IN  Parked([op |-> "recipe_post", tok |-> tok, rid |-> 0, body |-> body,
                       row |-> [title |-> body.data.title,
                                slug |-> unique_slug(base_slug, base_slug, 1,
                                                     {r.slug : r \in recipes}),
                                user_id |-> SqlInt(get_jwt_identity(tok)),
                                category_id |-> body.data.category_id,
                                is_published |-> IF Has(body, "is_published")
                                                   THEN body.data.is_published
                                                   ELSE FALSE]])

\* RecipeListResource.post, db.session.commit and after: the rows and the reply.
\* (The INSERT checks the unique slug only: the database of the configuration
\* is SQLite, on which no "PRAGMA foreign_keys=ON" is issued, so the
\* ForeignKey columns are not checked against the tables they name.)
recipe_post_commit(req) ==
  LET new_recipe == [id |-> NextId(recipes)] @@ req.row
  IN  IF ~unique_recipe_slug(recipes \cup {new_recipe})
        THEN \* IntegrityError, caught by "except Exception": rollback
             [recipes |-> recipes,
              reply |-> Exchange("recipe_post", req.tok, 0, 0, req.body,
                                 500, "Error creating recipe")]
        ELSE [recipes |-> recipes \cup {new_recipe},
              reply |-> Exchange("recipe_post", req.tok, new_recipe.id, 0, req.body,
                                 201, "Recipe created successfully")]

\* the uniqueness loop of put without "Recipe.id != recipe_id"
slugs_of_all(rid) == {r.slug : r \in recipes}

\* the slugs the uniqueness loop of put looks at:
\* "Recipe.query.filter(Recipe.slug == new_slug, Recipe.id != recipe_id)"
slugs_of_others(rid) == {r.slug : r \in {x \in recipes : x.id # rid}}

\* RecipeDetailResource.put up to db.session.commit: the checks, the slug
\* and the attributes set on the loaded row
recipe_put_check(tok, rid, body) ==
  LET current_user_id == get_jwt_identity(tok)
      found == QueryGet(recipes, PyInt(rid))
      recipe == CHOOSE r \in found : TRUE
      user == QueryGet(users, current_user_id)
      early(status, msg) ==
        Done(Exchange("recipe_put", tok, rid, 0, EmptyBody, status, msg))
      reply(status, msg) == Done(Exchange("recipe_put", tok, rid, 0, body, status, msg))
  IN  IF ~jwt_ok(tok) THEN early(401, "unauthorized")
      ELSE IF found = {} THEN early(404, "Recipe not found")
      ELSE IF user = {} THEN early(500, "Error updating recipe")
      ELSE IF not_owner_nor_admin(recipe, current_user_id, CHOOSE u \in user : TRUE)
        THEN early(403, "You don't have permission to update this recipe")
      ELSE IF body.empty THEN reply(400, "No input data provided")
      ELSE IF ~recipe_update_valid(body) THEN reply(422, "Validation failed")
      ELSE IF Has(body, "category_id")
              /\ QueryGet(categories, PyInt(body.data.category_id)) = {}
        THEN reply(404, "Category not found")
      ELSE LET retitled == Has(body, "title") /\ body.data.title # recipe.title
               base_slug == derive_slug(body.data.title)
               new_slug ==
                 unique_slug(base_slug, base_slug, 1, slugs_of_others(rid))
               edited == [f \in DOMAIN recipe |->
                            IF f \in DOMAIN body.data THEN body.data[f]
                            ELSE IF f = "slug" /\ retitled THEN new_slug
                            ELSE recipe[f]]
           IN  Parked([op |-> "recipe_put", tok |-> tok, rid |-> rid, body |-> body,
                       row |-> [f \in {g \in DOMAIN recipe : edited[g] # recipe[g]}
                                  |-> edited[f]]])

\* RecipeDetailResource.put, db.session.commit and after: the UPDATE writes
\* the attributes whose value differs from the loaded one
recipe_put_commit(req) ==
  LET stored == {r \in recipes : r.id = req.rid}
      recipe == CHOOSE r \in stored : TRUE
      updated == [f \in DOMAIN recipe |->
                    IF f \in DOMAIN req.row THEN req.row[f] ELSE recipe[f]]
      fail == [recipes |-> recipes,
               reply |-> Exchange("recipe_put", req.tok, req.rid, 0, req.body,
                                  500, "Error updating recipe")]
      ok(rows) == [recipes |-> rows,
                   reply |-> Exchange("recipe_put", req.tok, req.rid, 0, req.body,
                                      200, "Recipe updated successfully")]
  IN  IF DOMAIN req.row = {} THEN ok(recipes)
      ELSE IF stored = {} THEN fail  \* the UPDATE matched no row: StaleDataError
      ELSE IF ~unique_recipe_slug((recipes \ {recipe}) \cup {updated})
        THEN fail                    \* IntegrityError: rollback
      ELSE ok((recipes \ {recipe}) \cup {updated})

\* RecipeListResource.post by a worker whose commit other requests may precede
RecipePostCheck(w, tok, body) ==
  /\ pend[w] = Idle
  /\ UNCHANGED db
  /\ LET c == recipe_post_check(tok, body)
     IN  IF c.parked
           THEN pend' = [pend EXCEPT ![w] = c.req] /\ last' = NoExchange
           ELSE last' = c.reply /\ UNCHANGED pend

RecipePostCommit(w) ==
  /\ pend[w].op = "recipe_post"
  /\ pend' = [pend EXCEPT ![w] = Idle]
  /\ UNCHANGED <<users, categories, ingredients, ratings>>
  /\ LET c == recipe_post_commit(pend[w])
     IN  /\ \A r \in c.recipes : r.id <= MaxRecipeId
         /\ recipes' = c.recipes /\ last' = c.reply

\* RecipeListResource.post, from request to response, while the table hands
\* out primary keys up to cap
RecipePostUpTo(cap, tok, body) ==
  /\ UNCHANGED <<users, categories, ingredients, ratings, pend>>
  /\ LET c == recipe_post_check(tok, body)
     IN  IF c.parked
           THEN LET d == recipe_post_commit(c.req)
                IN  /\ \A r \in d.recipes : r.id <= cap
                    /\ recipes' = d.recipes /\ last' = d.reply
           ELSE last' = c.reply /\ UNCHANGED recipes

\* RecipeListResource.post, from request to response
RecipePost(tok, body) == RecipePostUpTo(MaxRecipeId, tok, body)

\* RecipeDetailResource.put by a worker whose commit other requests may precede
RecipePutCheck(w, tok, rid, body) ==
  /\ pend[w] = Idle
  /\ UNCHANGED db
  /\ LET c == recipe_put_check(tok, rid, body)
     IN  IF c.parked
           THEN pend' = [pend EXCEPT ![w] = c.req] /\ last' = NoExchange
           ELSE last' = c.reply /\ UNCHANGED pend

RecipePutCommit(w) ==
  /\ pend[w].op = "recipe_put"
  /\ pend' = [pend EXCEPT ![w] = Idle]
  /\ UNCHANGED <<users, categories, ingredients, ratings>>
  /\ LET c == recipe_put_commit(pend[w])
     IN  recipes' = c.recipes /\ last' = c.reply

\* RecipeDetailResource.put, from request to response
RecipePut(tok, rid, body) ==
  /\ UNCHANGED <<users, categories, ingredients, ratings, pend>>
  /\ LET c == recipe_put_check(tok, rid, body)
     IN  IF c.parked
           THEN LET d == recipe_put_commit(c.req)
                IN  recipes' = d.recipes /\ last' = d.reply
           ELSE last' = c.reply /\ UNCHANGED recipes

\* the relationship declared without a cascade: the children stay
no_cascade_delete(rows, recipe) == rows

\* relationship(..., cascade='all, delete-orphan'): what is left of the
\* child rows when the recipe is deleted
cascade_delete(rows, recipe) == {x \in rows : x.recipe_id # recipe.id}

\* RecipeDetailResource.delete; the relationships cascade to the recipe's
\* ingredients and ratings
RecipeDelete(tok, rid) ==
  /\ UNCHANGED <<users, categories, pend>>
  /\ LET current_user_id == get_jwt_identity(tok)
         found == QueryGet(recipes, PyInt(rid))
         recipe == CHOOSE r \in found : TRUE
         user == QueryGet(users, current_user_id)
         reply(status, msg) ==
           /\ last' = Exchange("recipe_delete", tok, rid, 0, EmptyBody, status, msg)
           /\ UNCHANGED <<recipes, ingredients, ratings>>
     IN  IF ~jwt_ok(tok) THEN reply(401, "unauthorized")
         ELSE IF found = {} THEN reply(404, "Recipe not found")
         ELSE IF user = {} THEN reply(500, "Error deleting recipe")
         ELSE IF not_owner_nor_admin(recipe, current_user_id, CHOOSE u \in user : TRUE)
           THEN reply(403, "You don't have permission to delete this recipe")
         ELSE /\ recipes' = recipes \ {recipe}
              /\ ingredients' = cascade_delete(ingredients, recipe)
              /\ ratings' = cascade_delete(ratings, recipe)
              /\ last' = Exchange("recipe_delete", tok, rid, 0, EmptyBody,
                                  200, "Recipe deleted successfully")

\* the visibility check without the handler around the token verification:
\* an invalid token is answered by the JWT error handler
unpublished_status_uncaught(tok, recipe) ==
  IF tok.kind = "invalid"
    THEN 401
  ELSE LET current_user_id == get_jwt_identity(tok)
       IN  IF py_ne(current_user_id, PyInt(recipe.user_id))
             THEN IF \E u \in QueryGet(users, current_user_id) : u.is_admin
                    THEN 200 ELSE 403
             ELSE 200

\* RecipeDetailResource.get on an unpublished recipe: the status the
\* visibility check leaves the request with (200: the recipe is served)
unpublished_status(tok, recipe) ==
  IF tok.kind = "invalid"
    THEN 403          \* verify_jwt_in_request raises, the bare except answers
  ELSE LET current_user_id == get_jwt_identity(tok)
       IN  IF py_ne(current_user_id, PyInt(recipe.user_id))
             THEN IF \E u \in QueryGet(users, current_user_id) : u.is_admin
                    THEN 200 ELSE 403
             ELSE 200

\* RecipeDetailResource.get; data is what recipe_detail_response_schema dumps
RecipeGet(tok, rid) ==
  /\ UNCHANGED <<db, pend>>
  /\ LET found == QueryGet(recipes, PyInt(rid))
         recipe == CHOOSE r \in found : TRUE
         reply(status, msg, data) ==
           last' = [Exchange("recipe_get", tok, rid, 0, EmptyBody, status, msg)
                      EXCEPT !.body = data]
         detail == [empty |-> FALSE,
                    data |-> [recipe |-> recipe,
                              average_rating |-> get_average_rating(recipe),
                              ingredients |-> {i \in ingredients : i.recipe_id = recipe.id},
                              ratings |-> {x \in ratings : x.recipe_id = recipe.id}]]
     IN  IF found = {} THEN reply(404, "Recipe not found", EmptyBody)
         ELSE IF ~recipe.is_published /\ unpublished_status(tok, recipe) # 200
           THEN reply(unpublished_status(tok, recipe),
                      "This recipe is not published", EmptyBody)
         ELSE reply(200, "Recipe retrieved successfully", detail)

\* the words the list handlers read as true and as false in ?is_published=
TrueWords == { <<"t", "r", "u", "e">>, <<"1">>, <<"y", "e", "s">> }
FalseWords == { <<"f", "a", "l", "s", "e">>, <<"0">>, <<"n", "o">> }

\* the published filter of the list handlers; is_published is the query
\* argument, the empty string when it is not given
published_filter(rows, is_published) ==
  IF is_published # <<>>
    THEN IF lower(is_published) \in TrueWords THEN {r \in rows : r.is_published}
         ELSE IF lower(is_published) \in FalseWords THEN {r \in rows : ~r.is_published}
         ELSE rows
    ELSE {r \in rows : r.is_published}

\* a response with data, to a read that takes no body (the rows of one
\* page: the model stores fewer rows than the smallest page holds)
Read(op, tok, rid, xid, status, msg, data) ==
  [Exchange(op, tok, rid, xid, EmptyBody, status, msg) EXCEPT !.body = data]

\* RecipeListResource.get; category_id and user_id are the query arguments,
\* 0 when they are not given
RecipeList(tok, category_id, user_id, is_published) ==
  /\ UNCHANGED <<db, pend>>
  /\ LET in_category == IF category_id # 0
                          THEN {r \in recipes : r.category_id = category_id}
                          ELSE recipes
         of_user == IF user_id # 0 THEN {r \in in_category : r.user_id = user_id}
                    ELSE in_category
     IN  last' = Read("recipe_list", tok, 0, 0, 200, "Recipes retrieved successfully",
                      Body([recipes |-> published_filter(of_user, is_published)]))

\* RecipesByUserResource.get
RecipesByUser(tok, user_id, is_published) ==
  /\ UNCHANGED <<db, pend>>
  /\ IF QueryGet(users, PyInt(user_id)) = {}
       THEN last' = Read("recipes_by_user", tok, 0, user_id, 404, "User not found",
                         EmptyBody)
       ELSE last' = Read("recipes_by_user", tok, 0, user_id, 200,
                         "Recipes retrieved successfully",
                         Body([recipes |->
                                 published_filter({r \in recipes : r.user_id = user_id},
                                                  is_published)]))

\* RecipesByCategoryResource.get
RecipesByCategory(tok, category_id) ==
  /\ UNCHANGED <<db, pend>>
  /\ IF QueryGet(categories, PyInt(category_id)) = {}
       THEN last' = Read("recipes_by_category", tok, 0, category_id, 404,
                         "Category not found", EmptyBody)
       ELSE last' = Read("recipes_by_category", tok, 0, category_id, 200,
                         "Recipes retrieved successfully",
                         Body([recipes |-> {r \in recipes :
                                              /\ r.category_id = category_id
                                              /\ r.is_published}]))

----------------------------------------------------------------------------
(* Ingredients: src/app/api/v1/ingredients.py *)

MaxNameLen == 100
MaxQuantityLen == 50
MaxBulkItems == 50

\* int(x) returns: x is an int, or a str that spells one in digits
int_like(x) ==
  \/ x.t = "int"
  \/ x.t = "str" /\ x.v # <<>> /\ \A i \in 1 .. Len(x.v) : x.v[i] \in Digits

\* fields.Int deserialization, and the Number field's serialization: int(x)
format_num(x) == IF x.t = "int" THEN x.v ELSE ParseInt(x.v)

\* order = fields.Int(validate=Range(min=0))
order_valid(x) == int_like(x) /\ format_num(x) >= 0

\* what an INTEGER column of SQLite holds after x is written to it: a str
\* that spells an integer is converted, any other value is kept as it is
integer_column(x) == IF int_like(x) THEN PyInt(format_num(x)) ELSE x

\* IngredientCreateSchema: name and quantity required, order >= 0
ingredient_create_valid(item) ==
  /\ "name" \in DOMAIN item /\ Len(item.name) >= 1 /\ Len(item.name) <= MaxNameLen
  /\ "quantity" \in DOMAIN item
  /\ Len(item.quantity) >= 1 /\ Len(item.quantity) <= MaxQuantityLen
  /\ "order" \in DOMAIN item => order_valid(item.order)

\* IngredientUpdateSchema: the same fields, all optional
ingredient_update_valid(item) ==
  /\ "name" \in DOMAIN item => (Len(item.name) >= 1 /\ Len(item.name) <= MaxNameLen)
  /\ "quantity" \in DOMAIN item
       => (Len(item.quantity) >= 1 /\ Len(item.quantity) <= MaxQuantityLen)
  /\ "order" \in DOMAIN item => order_valid(item.order)

\* ingredient_update_schema.load: the fields given, order as an int
ingredient_update_load(item) ==
  [f \in DOMAIN item |-> IF f = "order" THEN PyInt(format_num(item.order)) ELSE item[f]]

\* IngredientCreateSchema.load: order has load_default=0
ingredient_create_load(item) ==
  [name |-> item.name, quantity |-> item.quantity,
   order |-> IF "order" \in DOMAIN item THEN PyInt(format_num(item.order))
             ELSE PyInt(0)]

\* the schema with a plain list field: the items are not validated
ingredient_bulk_create_valid_list_only(body) ==
  /\ Has(body, "ingredients")
  /\ Len(body.data.ingredients) >= 1 /\ Len(body.data.ingredients) <= MaxBulkItems

\* IngredientBulkCreateSchema: a list of 1 to 50 valid items
ingredient_bulk_create_valid(body) ==
  /\ Has(body, "ingredients")
  /\ Len(body.data.ingredients) >= 1 /\ Len(body.data.ingredients) <= MaxBulkItems
  /\ \A k \in 1 .. Len(body.data.ingredients) :
       ingredient_create_valid(body.data.ingredients[k])

\* dict.get(key, default)
DictGet(d, key, default) == IF key \in DOMAIN d THEN d[key] ELSE default

\* the attributes put and bulk-update set on a loaded ingredient, as the
\* row holds them after the UPDATE
ingredient_set(ingredient, item) ==
  [f \in DOMAIN ingredient |->
     IF f \in {"name", "quantity"} /\ f \in DOMAIN item THEN item[f]
     ELSE IF f = "order" /\ f \in DOMAIN item THEN integer_column(item[f])
     ELSE ingredient[f]]

\* the permission part every ingredient handler starts with: the reply it
\* ends the request with, or NoExchange when the request may go on
ingredient_gate(op, tok, rid, xid) ==
  LET current_user_id == get_jwt_identity(tok)
      found == QueryGet(recipes, PyInt(rid))
      recipe == CHOOSE r \in found : TRUE
      user == QueryGet(users, current_user_id)
      reply(status, msg) == Exchange(op, tok, rid, xid, EmptyBody, status, msg)
  IN  IF ~jwt_ok(tok) THEN reply(401, "unauthorized")
      ELSE IF found = {} THEN reply(404, "Recipe not found")
      ELSE IF user = {} THEN reply(500, "Error")
      ELSE IF not_owner_nor_admin(recipe, current_user_id, CHOOSE u \in user : TRUE)
        THEN reply(403, "You don't have permission")
      ELSE NoExchange

\* IngredientListResource.get
IngredientList(tok, rid) ==
  /\ UNCHANGED <<db, pend>>
  /\ LET found == QueryGet(recipes, PyInt(rid))
         recipe == CHOOSE r \in found : TRUE
     IN  IF found = {}
           THEN last' = Read("ingredient_list", tok, rid, 0, 404, "Recipe not found",
                             EmptyBody)
           ELSE last' = Read("ingredient_list", tok, rid, 0, 200,
                             "Ingredients retrieved successfully",
                             Body([recipe_id |-> rid, recipe_title |-> recipe.title,
                                   ingredients |->
                                     {i \in ingredients : i.recipe_id = rid}]))

\* IngredientDetailResource.get
IngredientGet(tok, rid, iid) ==
  /\ UNCHANGED <<db, pend>>
  /\ LET found == filter_by(ingredients, iid, rid)
         reply(status, msg, data) ==
           last' = Read("ingredient_get", tok, rid, iid, status, msg, data)
     IN  IF QueryGet(recipes, PyInt(rid)) = {}
           THEN reply(404, "Recipe not found", EmptyBody)
         ELSE IF found = {} THEN reply(404, "Ingredient not found", EmptyBody)
         ELSE reply(200, "Ingredient retrieved successfully",
                    Body([ingredient |-> CHOOSE i \in found : TRUE]))

\* IngredientListResource.post
IngredientPost(tok, rid, body) ==
  /\ UNCHANGED <<users, categories, recipes, ratings, pend>>
  /\ LET gate == ingredient_gate("ingredient_post", tok, rid, 0)
         loaded == ingredient_create_load(body.data)
         new_ingredient == [id |-> NextId(ingredients), recipe_id |-> rid,
                            name |-> loaded.name, quantity |-> loaded.quantity,
                            order |-> loaded.order]
         reply(xid, status, msg) ==
           last' = Exchange("ingredient_post", tok, rid, xid, body, status, msg)
     IN  IF gate # NoExchange THEN last' = gate /\ UNCHANGED ingredients
         ELSE IF body.empty
           THEN reply(0, 400, "No input data provided") /\ UNCHANGED ingredients
         ELSE IF ~ingredient_create_valid(body.data)
           THEN reply(0, 422, "Validation failed") /\ UNCHANGED ingredients
         ELSE /\ new_ingredient.id <= MaxIngredientId
              /\ ingredients' = ingredients \cup {new_ingredient}
              /\ reply(new_ingredient.id, 201, "Ingredient added successfully")

\* IngredientDetailResource.put
IngredientPut(tok, rid, iid, body) ==
  /\ UNCHANGED <<users, categories, recipes, ratings, pend>>
  /\ LET gate == ingredient_gate("ingredient_put", tok, rid, iid)
         found == filter_by(ingredients, iid, rid)
         ingredient == CHOOSE i \in found : TRUE
         reply(b, status, msg) ==
           last' = Exchange("ingredient_put", tok, rid, iid, b, status, msg)
     IN  IF gate # NoExchange THEN last' = gate /\ UNCHANGED ingredients
         ELSE IF found = {}
           THEN reply(EmptyBody, 404, "Ingredient not found") /\ UNCHANGED ingredients
         ELSE IF body.empty
           THEN reply(body, 400, "No input data provided") /\ UNCHANGED ingredients
         ELSE IF ~ingredient_update_valid(body.data)
           THEN reply(body, 422, "Validation failed") /\ UNCHANGED ingredients
         ELSE /\ ingredients' = (ingredients \ {ingredient})
                                  \cup {ingredient_set(ingredient,
                                                       ingredient_update_load(body.data))}
              /\ reply(body, 200, "Ingredient updated successfully")

\* IngredientDetailResource.delete
IngredientDelete(tok, rid, iid) ==
  /\ UNCHANGED <<users, categories, recipes, ratings, pend>>
  /\ LET gate == ingredient_gate("ingredient_delete", tok, rid, iid)
         found == filter_by(ingredients, iid, rid)
         reply(status, msg) ==
           last' = Exchange("ingredient_delete", tok, rid, iid, EmptyBody, status, msg)
     IN  IF gate # NoExchange THEN last' = gate /\ UNCHANGED ingredients
         ELSE IF found = {}
           THEN reply(404, "Ingredient not found") /\ UNCHANGED ingredients
         ELSE /\ ingredients' = ingredients \ found
              /\ reply(200, "Ingredient deleted successfully")

\* IngredientBulkCreateResource.post, while the table hands out primary keys
\* up to cap
IngredientBulkCreateUpTo(cap, tok, rid, body) ==
  /\ UNCHANGED <<users, categories, recipes, ratings, pend>>
  /\ LET gate == ingredient_gate("ingredient_bulk", tok, rid, 0)
         items == body.data.ingredients
         first == NextId(ingredients)
         new_ingredients ==
           { LET ingredient_data == ingredient_create_load(items[k])
             IN  [id |-> first + k - 1, recipe_id |-> rid,
                  name |-> ingredient_data.name,
                  quantity |-> ingredient_data.quantity,
                  \* enumerate() counts from 0: idx = k - 1
                  order |-> DictGet(ingredient_data, "order", PyInt(k - 1))]
             : k \in 1 .. Len(items) }
         reply(status, msg) ==
           last' = Exchange("ingredient_bulk", tok, rid, 0, body, status, msg)
     IN  IF gate # NoExchange THEN last' = gate /\ UNCHANGED ingredients
         ELSE IF body.empty
           THEN reply(400, "No input data provided") /\ UNCHANGED ingredients
         ELSE IF ~ingredient_bulk_create_valid(body)
           THEN reply(422, "Validation failed") /\ UNCHANGED ingredients
         ELSE /\ \A i \in new_ingredients : i.id <= cap
              /\ ingredients' = ingredients \cup new_ingredients
              /\ reply(201, "ingredients added successfully")

\* IngredientBulkCreateResource.post
IngredientBulkCreate(tok, rid, body) ==
  IngredientBulkCreateUpTo(MaxIngredientId, tok, rid, body)

\* the loop of IngredientBulkUpdateResource.put over the submitted items,
\* from item k on: the rows after it
RECURSIVE bulk_update_rows(_, _, _, _)
bulk_update_rows(rows, items, k, rid) ==
  IF k > Len(items) THEN rows
  ELSE LET ingredient_data == items[k]
           found == IF "id" \in DOMAIN ingredient_data
                      THEN filter_by(rows, ingredient_data.id, rid)
                      ELSE {}
           ingredient == CHOOSE i \in found : TRUE
       IN  IF found = {} THEN bulk_update_rows(rows, items, k + 1, rid)
           ELSE bulk_update_rows(
                  (rows \ {ingredient}) \cup {ingredient_set(ingredient, ingredient_data)},
                  items, k + 1, rid)

\* the ingredients the loop appends to updated_ingredients: those an item
\* names by id among the recipe's
bulk_updated(rows, items, rid) ==
  {i \in rows : /\ i.recipe_id = rid
                /\ \E k \in 1 .. Len(items) :
                     "id" \in DOMAIN items[k] /\ items[k].id = i.id}

\* ingredients_response_schema.dump of a row: order = fields.Int() formats
\* the column value with int(), which raises ValueError on any other text
response_dumps(ingredient) ==
  ingredient.order.t = "none" \/ int_like(ingredient.order)

\* IngredientBulkUpdateResource.put
IngredientBulkUpdate(tok, rid, body) ==
  /\ UNCHANGED <<users, categories, recipes, ratings, pend>>
  /\ LET gate == ingredient_gate("ingredient_bulk_update", tok, rid, 0)
         reply(status, msg) ==
           last' = Exchange("ingredient_bulk_update", tok, rid, 0, body, status, msg)
     IN  IF gate # NoExchange THEN last' = gate /\ UNCHANGED ingredients
         ELSE IF body.empty \/ ~Has(body, "ingredients")
           THEN reply(400, "No input data provided or missing 'ingredients' field")
                /\ UNCHANGED ingredients
         ELSE IF Len(body.data.ingredients) = 0
           THEN reply(400, "Ingredients must be a non-empty list")
                /\ UNCHANGED ingredients
         ELSE LET committed ==
                    bulk_update_rows(ingredients, body.data.ingredients, 1, rid)
              IN  /\ ingredients' = committed
                  /\ IF \A i \in bulk_updated(committed, body.data.ingredients, rid) :
                          response_dumps(i)
                       THEN reply(200, "ingredients updated successfully")
                       \* the dump raises after db.session.commit(): the
                       \* rollback of "except Exception" has nothing to undo
                       ELSE reply(500, "Error updating ingredients")

----------------------------------------------------------------------------
(* Registration: src/app/api/v1/auth.py *)

MinUsernameLen == 3
MaxUsernameLen == 80
MinPasswordLen == 8
MinTldLen == 2

is_upper(c) == \E k \in 1 .. Len(UpperCase) : UpperCase[k] = c
is_lower(c) == \E k \in 1 .. Len(LowerCase) : LowerCase[k] = c
is_letter(c) == is_upper(c) \/ is_lower(c)

\* UserRegistrationSchema.username with validate_username: 3 to 80
\* characters of [a-zA-Z0-9_-], the first a letter
username_valid(username) ==
  /\ Len(username) >= MinUsernameLen /\ Len(username) <= MaxUsernameLen
  /\ is_letter(username[1])
  /\ \A i \in 1 .. Len(username) :
       is_letter(username[i]) \/ username[i] \in Digits \/ username[i] \in {"_", "-"}

\* fields.Email: one "@" after a non-empty user part, then a domain of
\* dot-separated labels that ends in a label of two characters or more
email_valid(email) ==
  \E at \in 2 .. Len(email) :
    /\ email[at] = "@"
    /\ \A i \in 1 .. Len(email) : i # at => email[i] \notin (WhiteSpace \cup {"@"})
    /\ \E dot \in (at + 2) .. (Len(email) - MinTldLen) :
         /\ email[dot] = "."
         /\ \A i \in (dot + 1) .. Len(email) : is_letter(email[i])

\* UserRegistrationSchema.password with validate_password: 8 characters or
\* more, with an upper case letter, a lower case letter and a digit
password_valid(password) ==
  /\ Len(password) >= MinPasswordLen
  /\ \E i \in 1 .. Len(password) : is_upper(password[i])
  /\ \E i \in 1 .. Len(password) : is_lower(password[i])
  /\ \E i \in 1 .. Len(password) : password[i] \in Digits

\* the fields UserRegistrationSchema declares; a body with any other key is
\* refused (marshmallow schemas raise on unknown fields)
RegistrationFields == {"username", "email", "password", "full_name"}

\* user_registration_schema.load
registration_valid(body) ==
  /\ DOMAIN body.data \subseteq RegistrationFields
  /\ Has(body, "username") /\ username_valid(body.data.username)
  /\ Has(body, "email") /\ email_valid(body.data.email)
  /\ Has(body, "password") /\ password_valid(body.data.password)

\* the users table declared without unique=True on its columns
no_unique_user(rows) == TRUE

\* User.username and User.email: unique=True
unique_user(rows) ==
  \A x, y \in rows : (x.username = y.username \/ x.email = y.email) => x.id = y.id

\* a constructor that sets the flag on every new user
User_as_admin(username, email) ==
  [username |-> username, email |-> email, is_admin |-> TRUE]

\* User.__init__ takes no is_admin; the column has default=False
User(username, email) ==
  [username |-> username, email |-> email, is_admin |-> FALSE]

\* RegisterResource.post up to db.session.add: the checks
register_check(body) ==
  LET reply(status, msg) == Done(Exchange("register", NoToken, 0, 0, body, status, msg))
      existing == {u \in users : u.email = body.data.email
                                   \/ u.username = body.data.username}
  IN  IF body.empty THEN reply(400, "No input data provided")
      ELSE IF ~registration_valid(body) THEN reply(422, "Validation failed")
      ELSE IF \E u \in existing : u.email = body.data.email
        THEN reply(400, "User with this email already exists")
      ELSE IF existing # {}
        THEN reply(400, "User with this username already exists")
      ELSE Parked([op |-> "register", tok |-> NoToken, rid |-> 0, body |-> body,
                   row |-> User(body.data.username, body.data.email)])

\* RegisterResource.post, db.session.commit and after: the rows and the reply
register_commit(req) ==
  LET new_user == [id |-> NextId(users)] @@ req.row
  IN  IF ~unique_user(users \cup {new_user})
        THEN \* "except IntegrityError": rollback
             [users |-> users,
              reply |-> Exchange("register", NoToken, 0, 0, req.body, 400,
                                 "User with this email or username already exists")]
        ELSE [users |-> users \cup {new_user},
              reply |-> Exchange("register", IssuedToken(new_user.id), 0, new_user.id,
                                 req.body, 201, "User registered successfully")]

\* RegisterResource.post by a worker whose commit other requests may precede
RegisterCheck(w, body) ==
  /\ pend[w] = Idle
  /\ UNCHANGED db
  /\ LET c == register_check(body)
     IN  IF c.parked
           THEN pend' = [pend EXCEPT ![w] = c.req] /\ last' = NoExchange
           ELSE last' = c.reply /\ UNCHANGED pend

RegisterCommit(w) ==
  /\ pend[w].op = "register"
  /\ pend' = [pend EXCEPT ![w] = Idle]
  /\ UNCHANGED <<categories, recipes, ingredients, ratings>>
  /\ LET c == register_commit(pend[w])
     IN  /\ \A u \in c.users : u.id <= MaxUserId
         /\ users' = c.users /\ last' = c.reply

----------------------------------------------------------------------------
(* Categories: src/app/api/v1/categories.py, src/app/models/category.py *)

MinCategoryNameLen == 2
MaxCategoryNameLen == 50

\* str.replace('_', '-')
replace_underscores(s) == [i \in 1 .. Len(s) |-> IF s[i] = "_" THEN "-" ELSE s[i]]

\* Category._generate_slug
generate_slug(name) == replace_underscores(replace_spaces(lower(name)))

\* CategoryCreateSchema
category_create_valid(body) ==
  /\ Has(body, "name")
  /\ Len(body.data.name) >= MinCategoryNameLen
  /\ Len(body.data.name) <= MaxCategoryNameLen

\* CategoryUpdateSchema
category_update_valid(body) ==
  Has(body, "name") => /\ Len(body.data.name) >= MinCategoryNameLen
                       /\ Len(body.data.name) <= MaxCategoryNameLen

\* the admin test without its negation on the flag
not_user_or_admin(user) == user = {} \/ \E u \in user : u.is_admin

\* "not user or not user.is_admin", user the result of User.query.get
not_admin(user) == user = {} \/ \E u \in user : ~u.is_admin

\* unique=True on Category.name and on Category.slug
unique_category(rows) ==
  \A x, y \in rows : (x.name = y.name \/ x.slug = y.slug) => x = y

\* CategoryListResource.post
CategoryPost(tok, body) ==
  /\ UNCHANGED <<users, recipes, ingredients, ratings, pend>>
  /\ LET user == QueryGet(users, get_jwt_identity(tok))
         new_category ==
           [id |-> NextId(categories), name |-> body.data.name,
            slug |-> generate_slug(body.data.name),
            description |-> IF Has(body, "description")
                              THEN PyStr(body.data.description) ELSE PyNone]
         reply(b, cid, status, msg) ==
           last' = Exchange("category_post", tok, 0, cid, b, status, msg)
         refuse(b, status, msg) == reply(b, 0, status, msg) /\ UNCHANGED categories
     IN  IF ~jwt_ok(tok) THEN refuse(EmptyBody, 401, "unauthorized")
         ELSE IF not_admin(user)
           THEN refuse(EmptyBody, 403, "Admin privileges required")
         ELSE IF body.empty THEN refuse(body, 400, "No input data provided")
         ELSE IF ~category_create_valid(body) THEN refuse(body, 422, "Validation failed")
         ELSE IF \E c \in categories : c.name = body.data.name
           THEN refuse(body, 400, "Category with this name already exists")
         ELSE IF ~unique_category(categories \cup {new_category})
           THEN refuse(body, 400, "Category with this name already exists")
         ELSE /\ new_category.id <= MaxCategoryId
              /\ categories' = categories \cup {new_category}
              /\ reply(body, new_category.id, 201, "Category created successfully")

\* CategoryDetailResource.put
CategoryPut(tok, cid, body) ==
  /\ UNCHANGED <<users, recipes, ingredients, ratings, pend>>
  /\ LET user == QueryGet(users, get_jwt_identity(tok))
         found == QueryGet(categories, PyInt(cid))
         category == CHOOSE c \in found : TRUE
         renamed == IF Has(body, "name")
                      THEN [category EXCEPT !.name = body.data.name,
                                            !.slug = generate_slug(body.data.name)]
                      ELSE category
         updated == IF Has(body, "description")
                      THEN [renamed EXCEPT !.description = PyStr(body.data.description)]
                      ELSE renamed
         reply(b, status, msg) ==
           last' = Exchange("category_put", tok, 0, cid, b, status, msg)
         refuse(b, status, msg) == reply(b, status, msg) /\ UNCHANGED categories
     IN  IF ~jwt_ok(tok) THEN refuse(EmptyBody, 401, "unauthorized")
         ELSE IF not_admin(user)
           THEN refuse(EmptyBody, 403, "Admin privileges required")
         ELSE IF found = {} THEN refuse(EmptyBody, 404, "Category not found")
         ELSE IF body.empty THEN refuse(body, 400, "No input data provided")
         ELSE IF ~category_update_valid(body) THEN refuse(body, 422, "Validation failed")
         ELSE IF /\ Has(body, "name")
                 /\ \E c \in categories : c.name = body.data.name /\ c.id # cid
           THEN refuse(body, 400, "Another category with this name already exists")
         ELSE IF ~unique_category((categories \ {category}) \cup {updated})
           THEN refuse(body, 400, "Category with this name already exists")
         ELSE /\ categories' = (categories \ {category}) \cup {updated}
              /\ reply(body, 200, "Category updated successfully")

\* the count when the category has no recipes attribute
category_recipe_count_absent(cid) == 0

\* "category.recipes.count() if hasattr(category, 'recipes') else 0"
category_recipe_count(cid) == Cardinality({r \in recipes : r.category_id = cid})

\* CategoryDetailResource.delete
CategoryDelete(tok, cid) ==
  /\ UNCHANGED <<users, recipes, ingredients, ratings, pend>>
  /\ LET user == QueryGet(users, get_jwt_identity(tok))
         found == QueryGet(categories, PyInt(cid))
         recipe_count == category_recipe_count(cid)
         reply(status, msg) ==
           last' = Exchange("category_delete", tok, 0, cid, EmptyBody, status, msg)
         refuse(status, msg) == reply(status, msg) /\ UNCHANGED categories
     IN  IF ~jwt_ok(tok) THEN refuse(401, "unauthorized")
         ELSE IF not_admin(user) THEN refuse(403, "Admin privileges required")
         ELSE IF found = {} THEN refuse(404, "Category not found")
         ELSE IF recipe_count > 0 THEN refuse(400, "Cannot delete category with recipes")
         ELSE /\ categories' = categories \ found
              /\ reply(200, "Category deleted successfully")

----------------------------------------------------------------------------
(* Seed data and specifications *)

\* rows present before the first request: an administrator (no endpoint
\* grants is_admin) and two registered users
SeedUsers ==
  { [id |-> 1, username |-> <<"a", "d", "m", "i", "n">>,
     email |-> <<"a", "d", "m", "i", "n", "@", "x", ".", "i", "o">>, is_admin |-> TRUE],
    [id |-> 2, username |-> <<"a", "l", "i", "c", "e">>,
     email |-> <<"a", "l", "i", "c", "e", "@", "x", ".", "i", "o">>, is_admin |-> FALSE],
    [id |-> 3, username |-> <<"b", "o", "b", "b", "y">>,
     email |-> <<"b", "o", "b", "b", "y", "@", "x", ".", "i", "o">>, is_admin |-> FALSE] }

SeedCategories ==
  { [id |-> 1, name |-> <<"S", "o", "u", "p">>, slug |-> <<"s", "o", "u", "p">>,
     description |-> PyNone] }

SeedRecipes ==
  { [id |-> 1, title |-> <<"a", "b", "c">>, slug |-> <<"a", "b", "c">>,
     user_id |-> 2, category_id |-> 1, is_published |-> TRUE],
    [id |-> 2, title |-> <<"x", "y", "z">>, slug |-> <<"x", "y", "z">>,
     user_id |-> 2, category_id |-> 1, is_published |-> FALSE] }

\* ids a path may name: the stored ones and one that is not stored
RecipeIds == {1, 2, 3}
RatingIds == 1 .. MaxRatingId

InitRating ==
  /\ users = {u \in SeedUsers : u.id <= 2}
  /\ categories = SeedCategories
  /\ recipes = SeedRecipes
  /\ ingredients = {}
  /\ ratings = {}
  /\ pend = [w \in Workers |-> Idle]
  /\ last = NoExchange

\* every rating request, one post at a time
NextRating ==
  \/ \E tok \in Tokens, rid \in RecipeIds : RatingPostCheck("w1", tok, rid)
  \/ \E body \in RatingBodies : RatingPostCommit("w1", body)
  \/ \E tok \in Tokens, rid \in RecipeIds, xid \in RatingIds : RatingPut(tok, rid, xid)
  \/ \E tok \in Tokens, rid \in RecipeIds, xid \in RatingIds : RatingDelete(tok, rid, xid)

SpecRating == InitRating /\ [][NextRating]_vars

\* the requests that add and remove ratings, with posts of several workers
\* interleaving between the existing-rating check and the commit
NextRatingRace ==
  \/ \E w \in Workers, tok \in Tokens, rid \in RecipeIds : RatingPostCheck(w, tok, rid)
  \/ \E w \in Workers, body \in RatingBodies : RatingPostCommit(w, body)
  \/ \E tok \in Tokens, rid \in RecipeIds, xid \in RatingIds : RatingDelete(tok, rid, xid)

SpecRatingRace == InitRating /\ [][NextRatingRace]_vars

\* titles of the slug requests: two titles that derive the same slug
SlugTitles == { <<"P", "i", "e">>, <<"p", "i", "e">> }

\* callers of the slug requests: the registered users
SlugCallers == {IssuedToken(u.id) : u \in users}

SlugPostBodies ==
  {EmptyBody} \cup {Body([title |-> t, category_id |-> 1]) : t \in SlugTitles}

SlugPutBodies == {EmptyBody} \cup {Body([title |-> t]) : t \in SlugTitles}

RecipePathIds == 1 .. MaxRecipeId

InitRecipeSlug ==
  /\ users = {u \in SeedUsers : u.is_admin}
  /\ categories = SeedCategories
  /\ recipes = {}
  /\ ingredients = {}
  /\ ratings = {}
  /\ pend = [w \in Workers |-> Idle]
  /\ last = NoExchange

\* creates, updates and deletes of recipes.  One request (worker w1) is
\* between its checks and its commit while the others run from request to
\* response: the checks only read, so every interleaving of two requests is
\* one of these.
NextRecipeSlug ==
  \/ \E tok \in SlugCallers, body \in SlugPostBodies : RecipePostCheck("w1", tok, body)
  \/ RecipePostCommit("w1")
  \/ \E tok \in SlugCallers, rid \in RecipePathIds, body \in SlugPutBodies :
       RecipePutCheck("w1", tok, rid, body)
  \/ RecipePutCommit("w1")
  \/ \E tok \in SlugCallers, body \in SlugPostBodies : RecipePost(tok, body)
  \/ \E tok \in SlugCallers, rid \in RecipePathIds, body \in SlugPutBodies :
       RecipePut(tok, rid, body)
  \/ \E tok \in SlugCallers, rid \in RecipePathIds : RecipeDelete(tok, rid)

SpecRecipeSlug == InitRecipeSlug /\ [][NextRecipeSlug]_vars

\* bodies of the permission requests: none, one the schema refuses, and
\* valid ones
AuthRecipeBodies ==
  { EmptyBody, Body([title |-> <<"P", "i">>]),
    Body([is_published |-> TRUE]), Body([is_published |-> FALSE]) }

Salt == [name |-> <<"s">>, quantity |-> <<"1">>]

AuthIngredientBodies ==
  { EmptyBody, Body([name |-> <<>>, quantity |-> <<"1">>]), Body(Salt) }

AuthIngredientPutBodies ==
  { EmptyBody, Body([order |-> PyInt(0 - 1)]), Body([order |-> PyInt(1)]) }

AuthBulkBodies ==
  { EmptyBody, Body([ingredients |-> <<>>]), Body([ingredients |-> <<Salt>>]) }

AuthBulkUpdateBodies ==
  { EmptyBody, Body([ingredients |-> <<>>]),
    Body([ingredients |-> <<[id |-> 1, order |-> PyInt(2)]>>]) }

IngredientIds == 1 .. MaxIngredientId

\* the three registered users and one unpublished recipe of alice
InitRecipeAuth ==
  /\ users = SeedUsers
  /\ categories = SeedCategories
  /\ recipes = {r \in SeedRecipes : ~r.is_published}
  /\ ingredients = {}
  /\ ratings = {}
  /\ pend = [w \in Workers |-> Idle]
  /\ last = NoExchange

\* reads and writes of a recipe and of its ingredients, by every caller
NextRecipeAuth ==
  \/ \E tok \in Tokens, rid \in RecipePathIds : RecipeGet(tok, rid)
  \/ \E tok \in Tokens, rid \in RecipePathIds, body \in AuthRecipeBodies :
       RecipePut(tok, rid, body)
  \/ \E tok \in Tokens, rid \in RecipePathIds : RecipeDelete(tok, rid)
  \/ \E tok \in Tokens, rid \in RecipePathIds, body \in AuthIngredientBodies :
       IngredientPost(tok, rid, body)
  \/ \E tok \in Tokens, rid \in RecipePathIds, iid \in IngredientIds,
        body \in AuthIngredientPutBodies : IngredientPut(tok, rid, iid, body)
  \/ \E tok \in Tokens, rid \in RecipePathIds, iid \in IngredientIds :
       IngredientDelete(tok, rid, iid)
  \/ \E tok \in Tokens, rid \in RecipePathIds, body \in AuthBulkBodies :
       IngredientBulkCreate(tok, rid, body)
  \/ \E tok \in Tokens, rid \in RecipePathIds, body \in AuthBulkUpdateBodies :
       IngredientBulkUpdate(tok, rid, body)

SpecRecipeAuth == InitRecipeAuth /\ [][NextRecipeAuth]_vars

\* category names of the requests: two that differ only in case (one slug),
\* one with a space, one the schema refuses
CategoryNames ==
  { <<"a", "b">>, <<"A", "b">>, <<"a", " ", "b">>, <<"a">> }

CategoryPostBodies == {EmptyBody} \cup {Body([name |-> n]) : n \in CategoryNames}

CategoryPutBodies ==
  CategoryPostBodies \cup {Body([description |-> <<"d">>])}

CategoryPathIds == 1 .. MaxCategoryId

\* the three registered users, one category and the recipes filed under it
InitCategory ==
  /\ users = SeedUsers
  /\ categories = SeedCategories
  /\ recipes = SeedRecipes
  /\ ingredients = {}
  /\ ratings = {}
  /\ pend = [w \in Workers |-> Idle]
  /\ last = NoExchange

\* the category writes, by every caller
NextCategory ==
  \/ \E tok \in Tokens, body \in CategoryPostBodies : CategoryPost(tok, body)
  \/ \E tok \in Tokens, cid \in CategoryPathIds, body \in CategoryPutBodies :
       CategoryPut(tok, cid, body)
  \/ \E tok \in Tokens, cid \in CategoryPathIds : CategoryDelete(tok, cid)

SpecCategory == InitCategory /\ [][NextCategory]_vars

\* titles of the sequential requests: one title, and a title that derives
\* the slug the first collision of that title is given
SeqTitles ==
  { <<"S", "p", "i", "c", "y", " ", "C", "h", "i", "c", "k", "e", "n">>,
    <<"S", "p", "i", "c", "y", " ", "C", "h", "i", "c", "k", "e", "n", "-", "1">> }

SeqPostBodies == {Body([title |-> t, category_id |-> 1]) : t \in SeqTitles}

SeqPutBodies == {Body([title |-> t]) : t \in SeqTitles}

SeqPathIds == 1 .. MaxSeqRecipeId

\* creates, updates and deletes of recipes, one request after another
NextRecipeSeq ==
  \/ \E tok \in SlugCallers, body \in SeqPostBodies :
       RecipePostUpTo(MaxSeqRecipeId, tok, body)
  \/ \E tok \in SlugCallers, rid \in SeqPathIds, body \in SeqPutBodies :
       RecipePut(tok, rid, body)
  \/ \E tok \in SlugCallers, rid \in SeqPathIds : RecipeDelete(tok, rid)

SpecRecipeSeq == InitRecipeSlug /\ [][NextRecipeSeq]_vars

\* titles of the derivation requests: upper case with a space, a tab, a
\* character outside [a-z0-9-], a run of spaces, hyphens at the ends
DeriveTitles ==
  { <<"A", " ", "b">>, <<"a", "\t", "b">>, <<"a", "!", "b">>,
    <<"a", " ", " ", "b">>, <<"-", "a", "-">> }

DerivePostBodies == {Body([title |-> t, category_id |-> 1]) : t \in DeriveTitles}

DerivePutBodies ==
  {Body([title |-> t]) : t \in DeriveTitles} \cup {Body([is_published |-> FALSE])}

\* creates and updates of recipes with these titles, and deletes
NextSlugDerive ==
  \/ \E tok \in SlugCallers, body \in DerivePostBodies : RecipePost(tok, body)
  \/ \E tok \in SlugCallers, rid \in RecipePathIds, body \in DerivePutBodies :
       RecipePut(tok, rid, body)
  \/ \E tok \in SlugCallers, rid \in RecipePathIds : RecipeDelete(tok, rid)

SpecSlugDerive == InitRecipeSlug /\ [][NextSlugDerive]_vars

Ann == <<"a", "n", "n">>
Bob == <<"b", "o", "b">>
AnnMail == <<"a", "@", "x", ".", "i", "o">>
BobMail == <<"b", "@", "x", ".", "i", "o">>
Cyd == <<"c", "y", "d">>
CydMail == <<"c", "@", "x", ".", "i", "o">>
GoodPassword == <<"P", "a", "s", "s", "w", "0", "r", "d">>

\* bodies of the registrations: none, three usernames with three emails, and
\* one body for each field the schema refuses
RegisterBodies ==
  {EmptyBody}
  \cup {Body([username |-> n, email |-> m, password |-> GoodPassword]) :
          n \in {Ann, Bob, Cyd}, m \in {AnnMail, BobMail, CydMail}}
  \cup { Body([username |-> <<"a", "1">>, email |-> AnnMail, password |-> GoodPassword]),
         Body([username |-> Ann, email |-> <<"a", "@", "x">>, password |-> GoodPassword]),
         Body([username |-> Ann, email |-> AnnMail,
               password |-> <<"p", "a", "s", "s", "w", "o", "r", "d">>]) }

\* an empty database
InitRegister ==
  /\ users = {}
  /\ categories = {}
  /\ recipes = {}
  /\ ingredients = {}
  /\ ratings = {}
  /\ pend = [w \in Workers |-> Idle]
  /\ last = NoExchange

\* registrations of several workers, interleaving between the
\* existing-user check and the commit
NextRegister ==
  \/ \E w \in Workers, body \in RegisterBodies : RegisterCheck(w, body)
  \/ \E w \in Workers : RegisterCommit(w)

SpecRegister == InitRegister /\ [][NextRegister]_vars

\* the ratings of recipe 1 when the users in DOMAIN-order rated it with the
\* scores f gives them (0: the user did not rate)
RatingsOf(f) ==
  LET raters == {u \in DOMAIN f : f[u] # 0}
  IN  { [id |-> Cardinality({v \in raters : v <= u}), score |-> f[u],
         user_id |-> u, recipe_id |-> 1] : u \in raters }

\* the three registered users, alice's two recipes, and any ratings of the
\* published one
InitRatingStats ==
  /\ users = SeedUsers
  /\ categories = SeedCategories
  /\ recipes = SeedRecipes
  /\ ingredients = {}
  /\ \E f \in [{u.id : u \in SeedUsers} -> 0 .. 5] : ratings = RatingsOf(f)
  /\ pend = [w \in Workers |-> Idle]
  /\ last = NoExchange

\* new ratings, and the public reads that report the average
NextRatingStats ==
  \/ \E tok \in Tokens, rid \in RecipeIds : RatingPostCheck("w1", tok, rid)
  \/ \E body \in RatingBodies : RatingPostCommit("w1", body)
  \/ \E rid \in RecipeIds : RatingStats(rid)
  \/ \E rid \in RecipeIds : RecipeGet(NoToken, rid)

SpecRatingStats == InitRatingStats /\ [][NextRatingStats]_vars

\* the callers of the cascade requests: the admin and the recipes' owner
CascadeCallers == {IssuedToken(u.id) : u \in users}

\* ingredients and ratings are added to the two recipes, and recipes deleted
NextCascade ==
  \/ \E tok \in CascadeCallers, rid \in RecipePathIds :
       IngredientPost(tok, rid, Body(Salt))
  \/ \E tok \in CascadeCallers, rid \in RecipePathIds : RatingPostCheck("w1", tok, rid)
  \/ \E body \in {b \in RatingBodies : ~b.empty /\ score_valid(b)} :
       RatingPostCommit("w1", body)
  \/ \E tok \in CascadeCallers, rid \in RecipePathIds : RecipeDelete(tok, rid)

SpecCascade == InitRating /\ [][NextCascade]_vars

Pepper == [name |-> <<"p">>, quantity |-> <<"2">>]

\* bodies of the bulk creates: two items without order, an item with order
\* ahead of one without, and a single item
BulkOrderBodies ==
  { Body([ingredients |-> <<Salt, Pepper>>]),
    Body([ingredients |-> <<[name |-> Salt.name, quantity |-> Salt.quantity,
                             order |-> PyInt(3)], Pepper>>]),
    Body([ingredients |-> <<Pepper>>]) }

\* bulk creates and deletes of the ingredients of a recipe, by every caller
NextBulkOrder ==
  \/ \E tok \in Tokens, rid \in RecipePathIds, body \in BulkOrderBodies :
       IngredientBulkCreate(tok, rid, body)
  \/ \E tok \in Tokens, rid \in RecipePathIds, iid \in IngredientIds :
       IngredientDelete(tok, rid, iid)

SpecBulkOrder == InitRecipeAuth /\ [][NextBulkOrder]_vars

\* an item the ingredient schemas refuse: its name is empty
Nameless == [name |-> <<>>, quantity |-> <<"1">>]

\* a batch of n items, each the same ingredient
Batch(n, item) == [k \in 1 .. n |-> item]

\* bodies of the batch creates: none, an empty array, one item more than the
\* schema allows, a valid item followed by an invalid one, one item, and as
\* many items as the schema allows
BatchCreateBodies ==
  { EmptyBody, Body([ingredients |-> <<>>]),
    Body([ingredients |-> Batch(MaxBulkItems + 1, Salt)]),
    Body([ingredients |-> <<Salt, Nameless>>]),
    Body([ingredients |-> <<Salt>>]),
    Body([ingredients |-> Batch(MaxBulkItems, Salt)]) }

\* an update of the first ingredient's order
Reorder == [id |-> 1, order |-> PyInt(7)]

\* bodies of the batch updates: none, an empty array, one item, and one item
\* more than the schema allows
BatchUpdateBodies ==
  { EmptyBody, Body([ingredients |-> <<>>]),
    Body([ingredients |-> <<Reorder>>]),
    Body([ingredients |-> Batch(MaxBulkItems + 1, Reorder)]) }

\* batch creates and batch updates of the ingredients of a recipe, by every
\* caller
NextBulkBatch ==
  \/ \E tok \in Tokens, rid \in RecipePathIds, body \in BatchCreateBodies :
       IngredientBulkCreateUpTo(MaxBulkIngredientId, tok, rid, body)
  \/ \E tok \in Tokens, rid \in RecipePathIds, body \in BatchUpdateBodies :
       IngredientBulkUpdate(tok, rid, body)

SpecBulkBatch == InitRecipeAuth /\ [][NextBulkBatch]_vars

\* bodies of the bulk updates that fail or succeed: none, an empty array, an
\* order that is an int, a str that spells an int, and a str that spells none
FrameBulkUpdateBodies ==
  { EmptyBody, Body([ingredients |-> <<>>]),
    Body([ingredients |-> <<[id |-> 1, order |-> PyInt(2)]>>]),
    Body([ingredients |-> <<[id |-> 1, order |-> PyStr(<<"4">>)]>>]),
    Body([ingredients |-> <<[id |-> 1, name |-> <<"t">>],
                            [id |-> 1, order |-> PyStr(<<"a", "b", "c">>)]>>]) }

\* updates of a recipe, of its category and of its ingredients, by every
\* caller, with bodies that are refused at every stage of the handlers
NextErrorFrame ==
  \/ \E tok \in Tokens, rid \in RecipePathIds : IngredientPost(tok, rid, Body(Salt))
  \/ \E tok \in Tokens, rid \in RecipePathIds, body \in FrameBulkUpdateBodies :
       IngredientBulkUpdate(tok, rid, body)
  \/ \E tok \in Tokens, rid \in RecipePathIds, body \in AuthRecipeBodies :
       RecipePut(tok, rid, body)
  \/ \E tok \in Tokens, cid \in CategoryPathIds, body \in CategoryPutBodies :
       CategoryPut(tok, cid, body)

SpecErrorFrame == InitRecipeAuth /\ [][NextErrorFrame]_vars

\* bodies of the registrations of the flag requests: two users, and one that
\* asks for the flag
FlagRegisterBodies ==
  { Body([username |-> Ann, email |-> AnnMail, password |-> GoodPassword]),
    Body([username |-> Bob, email |-> BobMail, password |-> GoodPassword]),
    Body([username |-> Cyd, email |-> CydMail, password |-> GoodPassword,
          is_admin |-> TRUE]) }

Pie == <<"P", "i", "e">>

\* bodies of the recipe and category writes of the flag requests
FlagRecipePostBodies == {Body([title |-> Pie, category_id |-> 1])}
FlagCategoryBodies == {Body([name |-> <<"a", "b">>])}

\* registrations, and creates and deletes of recipes and categories by every
\* caller
NextAdminFlag ==
  \/ \E body \in FlagRegisterBodies : RegisterCheck("w1", body)
  \/ RegisterCommit("w1")
  \/ \E tok \in Tokens, body \in FlagRecipePostBodies : RecipePost(tok, body)
  \/ \E tok \in Tokens, rid \in RecipePathIds : RecipeDelete(tok, rid)
  \/ \E tok \in Tokens, body \in FlagCategoryBodies : CategoryPost(tok, body)
  \/ \E tok \in Tokens, cid \in CategoryPathIds : CategoryDelete(tok, cid)

\* the administrator alone, on a database with one category
SpecAdminFlag == InitRecipeSlug /\ [][NextAdminFlag]_vars

\* bodies of the filing requests: a recipe filed under either category, and
\* a recipe moved to either category
FilePostBodies == {Body([title |-> Pie, category_id |-> c]) : c \in CategoryPathIds}
FilePutBodies == {Body([category_id |-> c]) : c \in CategoryPathIds}

\* a create or an update of a recipe (worker w1) is between its
\* category-exists check and its commit while categories are created and
\* deleted
NextCategoryRace ==
  \/ \E tok \in SlugCallers, body \in FilePostBodies : RecipePostCheck("w1", tok, body)
  \/ RecipePostCommit("w1")
  \/ \E tok \in SlugCallers, rid \in RecipePathIds, body \in FilePutBodies :
       RecipePutCheck("w1", tok, rid, body)
  \/ RecipePutCommit("w1")
  \/ \E tok \in SlugCallers, rid \in RecipePathIds : RecipeDelete(tok, rid)
  \/ \E tok \in SlugCallers, body \in FlagCategoryBodies : CategoryPost(tok, body)
  \/ \E tok \in SlugCallers, cid \in CategoryPathIds : CategoryDelete(tok, cid)

SpecCategoryRace == InitRecipeSlug /\ [][NextCategoryRace]_vars

\* values of ?is_published=: not given, a true word, a false word in capitals,
\* and a word of neither list
PublishedArgs ==
  { <<>>, <<"t", "r", "u", "e">>, <<"F", "a", "l", "s", "e">>, <<"a", "l", "l">> }

\* ids a filter or a path may name: 0 (as a filter: not given) and stored ones
FilterIds == 0 .. 2

\* the three registered users, a published and an unpublished recipe of alice
InitReads ==
  /\ users = SeedUsers
  /\ categories = SeedCategories
  /\ recipes = SeedRecipes
  /\ ingredients = {}
  /\ ratings = {}
  /\ pend = [w \in Workers |-> Idle]
  /\ last = NoExchange

\* every read endpoint, by every caller, while ingredients are added
NextReads ==
  \/ \E tok \in Tokens, rid \in RecipePathIds : IngredientPost(tok, rid, Body(Salt))
  \/ \E tok \in Tokens, rid \in RecipePathIds : RecipeGet(tok, rid)
  \/ \E tok \in Tokens, category_id \in FilterIds, user_id \in FilterIds,
        is_published \in PublishedArgs :
       RecipeList(tok, category_id, user_id, is_published)
  \/ \E tok \in Tokens, user_id \in FilterIds, is_published \in PublishedArgs :
       RecipesByUser(tok, user_id, is_published)
  \/ \E tok \in Tokens, category_id \in FilterIds : RecipesByCategory(tok, category_id)
  \/ \E tok \in Tokens, rid \in RecipePathIds : IngredientList(tok, rid)
  \/ \E tok \in Tokens, rid \in RecipePathIds, iid \in IngredientIds :
       IngredientGet(tok, rid, iid)
  \/ \E tok \in Tokens, rid \in RecipePathIds : RatingList(tok, rid)
  \/ \E rid \in RecipePathIds : RatingStats(rid)

SpecReads == InitReads /\ [][NextReads]_vars

\* bulk-update bodies that name each ingredient id
PathBulkUpdateBodies ==
  { Body([ingredients |-> <<[id |-> iid, order |-> PyInt(2)]>>]) : iid \in IngredientIds }

\* the admin and alice, two recipes, and on each recipe an ingredient the
\* admin has added and a rating (the admin's on recipe 1, alice's on recipe 2)
InitItemPath ==
  /\ users = {u \in SeedUsers : u.id <= 2}
  /\ categories = SeedCategories
  /\ recipes = SeedRecipes
  /\ ingredients = { [id |-> r.id, recipe_id |-> r.id, name |-> Salt.name,
                      quantity |-> Salt.quantity, order |-> PyInt(0)] :
                      r \in SeedRecipes }
  /\ ratings = { [id |-> r.id, score |-> 5, user_id |-> r.id, recipe_id |-> r.id] :
                  r \in SeedRecipes }
  /\ pend = [w \in Workers |-> Idle]
  /\ last = NoExchange

\* the ingredients and ratings of two recipes read, updated and deleted
\* through the path of either recipe
NextItemPath ==
  \/ \E tok \in Tokens, rid \in RecipePathIds, iid \in IngredientIds :
       IngredientGet(tok, rid, iid)
  \/ \E tok \in Tokens, rid \in RecipePathIds, iid \in IngredientIds :
       IngredientPut(tok, rid, iid, Body([order |-> PyInt(1)]))
  \/ \E tok \in Tokens, rid \in RecipePathIds, iid \in IngredientIds :
       IngredientDelete(tok, rid, iid)
  \/ \E tok \in Tokens, rid \in RecipePathIds, body \in PathBulkUpdateBodies :
       IngredientBulkUpdate(tok, rid, body)
  \/ \E tok \in Tokens, rid \in RecipePathIds, xid \in RatingIds : RatingGet(tok, rid, xid)
  \/ \E tok \in Tokens, rid \in RecipePathIds, xid \in RatingIds : RatingPut(tok, rid, xid)
  \/ \E tok \in Tokens, rid \in RecipePathIds, xid \in RatingIds :
       RatingDelete(tok, rid, xid)

SpecItemPath == InitItemPath /\ [][NextItemPath]_vars

\* bodies of the bulk updates of one ingredient: a valid order, a negative
\* order, and an empty name
FieldBulkUpdateBodies ==
  { Body([ingredients |-> <<[id |-> 1, order |-> PyInt(2)]>>]),
    Body([ingredients |-> <<[id |-> 1, order |-> PyInt(0 - 1)]>>]),
    Body([ingredients |-> <<[id |-> 1, name |-> <<>>]>>]) }

\* every request that writes an ingredient, with fields the schemas accept
\* and fields they refuse
NextIngredientFields ==
  \/ \E tok \in Tokens, rid \in RecipePathIds, body \in AuthIngredientBodies :
       IngredientPost(tok, rid, body)
  \/ \E tok \in Tokens, rid \in RecipePathIds, iid \in IngredientIds,
        body \in AuthIngredientPutBodies : IngredientPut(tok, rid, iid, body)
  \/ \E tok \in Tokens, rid \in RecipePathIds, body \in AuthBulkBodies :
       IngredientBulkCreate(tok, rid, body)
  \/ \E tok \in Tokens, rid \in RecipePathIds, body \in FieldBulkUpdateBodies :
       IngredientBulkUpdate(tok, rid, body)

SpecIngredientFields == InitRecipeAuth /\ [][NextIngredientFields]_vars

\* titles of the slug form requests: only punctuation, only hyphens, a
\* newline the pattern refuses, and one with letters
FormTitles ==
  { <<"!", "!", "!">>, <<"-", "-", "-">>, <<"a", "\n", "b">>, <<"A", " ", "b">> }

FormPostBodies == {Body([title |-> t, category_id |-> 1]) : t \in FormTitles}
FormPutBodies == {Body([title |-> t]) : t \in FormTitles}

\* creates and updates of recipes with these titles, and deletes
NextSlugForm ==
  \/ \E tok \in SlugCallers, body \in FormPostBodies : RecipePost(tok, body)
  \/ \E tok \in SlugCallers, rid \in RecipePathIds, body \in FormPutBodies :
       RecipePut(tok, rid, body)
  \/ \E tok \in SlugCallers, rid \in RecipePathIds : RecipeDelete(tok, rid)

SpecSlugForm == InitRecipeSlug /\ [][NextSlugForm]_vars

----------------------------------------------------------------------------
(* Properties *)

\* primary keys of the users a token was issued to
CallerIds(tok) == {u.id : u \in TokenUser(tok)}

\* the caller of the exchange already has a rating on the exchange's recipe
CallerHasRated(ex) ==
  \E x \in ratings : x.recipe_id = ex.rid /\ x.user_id \in CallerIds(ex.tok)

AlreadyRatedMessages == {"already rated, use PUT", "already rated"}

\* C1: for every user u and recipe r there is at most one Rating with
\* (user_id = u, recipe_id = r), in every reachable state, also when posts of
\* the same user pass the existing-rating check before either commits.
C1_OneRatingPerUserRecipe ==
  \A x, y \in ratings :
    (x.user_id = y.user_id /\ x.recipe_id = y.recipe_id) => x = y

\* a post that passed the existing-rating check lost at the unique
\* constraint: the other post of the same user on the same recipe committed
C1_Witness ==
  /\ last.op = "rating_post" /\ last.msg = "already rated"
  /\ \E x \in ratings : x.recipe_id = last.rid /\ x.user_id \in CallerIds(last.tok)

\* C2: a POST of a rating by a user who already has a rating on the recipe,
\* found by the existing-rating check or by the unique constraint when the
\* row is inserted, is answered 400 "already rated"; whatever its body, it is
\* never answered 201 or 500 and it leaves the ratings as they were.
C2_DuplicateRatingIs400 ==
  [][ (last'.op = "rating_post" /\ jwt_ok(last'.tok) /\ CallerHasRated(last'))
      => /\ ratings' = ratings
         /\ last'.status \notin {201, 500}
         /\ (pend' = pend \/ (~last'.body.empty /\ score_valid(last'.body)))
              => (last'.status = 400 /\ last'.msg \in AlreadyRatedMessages) ]_vars

\* both detections happened: here the one at the unique constraint
C2_Witness ==
  /\ last.op = "rating_post" /\ last.status = 400 /\ last.msg = "already rated"
  /\ ~last.body.empty /\ score_valid(last.body)
  /\ CallerHasRated(last)

\* the requests that write a recipe or its ingredients
RecipeWriteOps ==
  { "recipe_put", "recipe_delete", "ingredient_post", "ingredient_put",
    "ingredient_delete", "ingredient_bulk", "ingredient_bulk_update" }

\* the exchange's caller is a registered user without the admin flag
CallerIsPlainUser(ex) ==
  TokenUser(ex.tok) # {} /\ \A u \in TokenUser(ex.tok) : ~u.is_admin

\* the stored recipe an exchange names in its path
Named(ex) == {r \in recipes : r.id = ex.rid}

\* C3: a non-admin user who owns a recipe and presents the token issued to
\* them is never answered 403 when updating or deleting the recipe or when
\* creating, updating or deleting its ingredients.
C3_OwnerWritesOwnRecipe ==
  [][ (/\ last'.op \in RecipeWriteOps
       /\ CallerIsPlainUser(last')
       /\ \E r \in Named(last') : r.user_id \in CallerIds(last'.tok))
      => last'.status # 403 ]_vars

\* C4: a write of a recipe or of its ingredients (single, bulk, bulk-update)
\* by an authenticated user who neither owns the recipe nor is an admin is
\* answered 403 and leaves the recipe and all its ingredients unchanged.
C4_OthersCannotWriteRecipe ==
  [][ (/\ last'.op \in RecipeWriteOps
       /\ CallerIsPlainUser(last')
       /\ \E r \in Named(last') : r.user_id \notin CallerIds(last'.tok))
      => /\ last'.status = 403
         /\ recipes' = recipes
         /\ ingredients' = ingredients ]_vars

\* bob was refused a bulk update of the ingredients alice's recipe has
C4_Witness ==
  /\ last.op = "ingredient_bulk_update" /\ last.status = 403
  /\ CallerIsPlainUser(last)
  /\ \E r \in Named(last) :
       /\ r.user_id \notin CallerIds(last.tok)
       /\ \E i \in ingredients : i.recipe_id = r.id

\* the exchange's caller is anonymous, presents an invalid token, or is a
\* user who neither owns the recipe nor is an admin
NotOwnerNorAdminOf(r, ex) ==
  \/ ex.tok \in {NoToken, BadToken}
  \/ CallerIsPlainUser(ex) /\ r.user_id \notin CallerIds(ex.tok)

\* C7: GET of an existing unpublished recipe by an anonymous caller, with an
\* invalid token, or by a user who is neither its owner nor an admin is
\* answered 403.  (A GET writes nothing, so the recipe the response is about
\* is the stored one.)
C7_UnpublishedHidden ==
  (/\ last.op = "recipe_get"
   /\ \E r \in Named(last) : ~r.is_published /\ NotOwnerNorAdminOf(r, last))
  => last.status = 403

\* an invalid token was answered 403 on an unpublished recipe
C7_Witness ==
  /\ last.op = "recipe_get" /\ last.tok = BadToken /\ last.status = 403
  /\ \E r \in Named(last) : ~r.is_published

\* C8: GET of an unpublished recipe by its non-admin owner, with the token
\* issued to them, is answered 200 with the recipe, its ingredients and its
\* ratings.
C8_OwnerReadsUnpublished ==
  (/\ last.op = "recipe_get"
   /\ CallerIsPlainUser(last)
   /\ \E r \in Named(last) : ~r.is_published /\ r.user_id \in CallerIds(last.tok))
  => /\ last.status = 200
     /\ ~last.body.empty
     /\ \A r \in Named(last) :
          /\ last.body.data.recipe = r
          /\ last.body.data.ingredients = {i \in ingredients : i.recipe_id = r.id}
          /\ last.body.data.ratings = {x \in ratings : x.recipe_id = r.id}

\* the rating an exchange addresses through its recipe's path
AddressedIn(rows, ex) == {x \in rows : x.id = ex.xid /\ x.recipe_id = ex.rid}
Addressed(ex) == AddressedIn(ratings, ex)

\* C5: a PUT or DELETE on an existing rating by an authenticated user other
\* than its author, an administrator included, is answered 403 and leaves
\* the ratings unchanged.
C5_OnlyAuthorEditsRating ==
  [][ (/\ last'.op \in {"rating_put", "rating_delete"}
       /\ jwt_ok(last'.tok)
       /\ \E x \in Addressed(last') : x.user_id \notin CallerIds(last'.tok))
      => (last'.status = 403 /\ ratings' = ratings) ]_vars

\* an administrator was refused on another user's rating, which is still there
C5_Witness ==
  /\ last.op \in {"rating_put", "rating_delete"} /\ last.status = 403
  /\ \E u \in TokenUser(last.tok) : u.is_admin
  /\ \E x \in Addressed(last) : x.user_id \notin CallerIds(last.tok)

\* C6: the author of a rating, with the token issued to them, can update it
\* (PUT with a valid score: 200 and the stored score is the new one) and
\* delete it (DELETE: 200 and the rating is gone); a user without a rating
\* on the recipe, as after the delete, can create one (201).
C6_AuthorEditsOwnRating ==
  [][ /\ (/\ last'.op \in {"rating_put", "rating_delete"}
          /\ \E x \in Addressed(last') : x.user_id \in CallerIds(last'.tok))
         => /\ last'.status \notin {401, 403, 404}
            /\ last'.op = "rating_delete"
                 => (last'.status = 200 /\ AddressedIn(ratings', last') = {})
            /\ (/\ last'.op = "rating_put"
                /\ ~last'.body.empty /\ score_valid(last'.body))
                 => /\ last'.status = 200
                    /\ \A x \in AddressedIn(ratings', last') :
                         x.score = last'.body.score
      /\ (/\ last'.op = "rating_post" /\ jwt_ok(last'.tok)
          /\ ~CallerHasRated(last')
          /\ ~last'.body.empty /\ score_valid(last'.body))
         => last'.status = 201 ]_vars

\* C10: no two recipes have the same slug, in every reachable state, after
\* any sequence and interleaving of creates, title-changing updates and deletes.
C10_RecipeSlugsUnique ==
  \A x, y \in recipes : x.slug = y.slug => x = y

\* a request computed a slug that was free at its check and taken at its
\* commit, and the store refused the write
C10_Witness ==
  /\ last.op \in {"recipe_post", "recipe_put"} /\ last.status = 500
  /\ Cardinality(recipes) >= 2

\* the category writes
CategoryWriteOps == {"category_post", "category_put", "category_delete"}

\* C9: the categories change only in a request by a user with is_admin set;
\* a POST, PUT or DELETE of a category by an authenticated non-admin user is
\* answered 403 and changes nothing.
C9_OnlyAdminWritesCategories ==
  [][ /\ categories' # categories
        => /\ last'.op \in CategoryWriteOps
           /\ \E u \in TokenUser(last'.tok) : u.is_admin
      /\ (last'.op \in CategoryWriteOps /\ CallerIsPlainUser(last'))
        => (last'.status = 403 /\ categories' = categories) ]_vars

\* a non-admin user was refused the update of an existing category
C9_Witness ==
  /\ last.op = "category_put" /\ last.status = 403
  /\ CallerIsPlainUser(last)
  /\ \E c \in categories : c.id = last.xid

\* slug b with the suffix -k
Suffixed(b, k) == b \o <<"-">> \o str(k)

SpicyChicken == <<"s", "p", "i", "c", "y", "-", "c", "h", "i", "c", "k", "e", "n">>

\* the recipe a successful create stored
Created(ex) == {r \in recipes : r.id = ex.rid}

\* C11: a recipe created with a title whose derived slug is b is stored with
\* slug b when no recipe has slug b, and otherwise with b-k for the smallest
\* k >= 1 such that no recipe has slug b-k.
C11_CreateSlugSmallestFreeSuffix ==
  [][ (last'.op = "recipe_post" /\ last'.status = 201)
      => LET b == derive_slug(last'.body.data.title)
             taken == {r.slug : r \in recipes}
         IN  \E n \in recipes' \ recipes :
               /\ n.id = last'.rid
               /\ b \notin taken => n.slug = b
               /\ b \in taken =>
                    \E k \in 1 .. MaxSeqRecipeId :
                      /\ n.slug = Suffixed(b, k)
                      /\ Suffixed(b, k) \notin taken
                      /\ \A j \in 1 .. (k - 1) : Suffixed(b, j) \in taken ]_vars

\* the third recipe titled "Spicy Chicken" was stored as "spicy-chicken-2",
\* beside "spicy-chicken" and "spicy-chicken-1"
C11_Witness ==
  /\ last.op = "recipe_post" /\ last.status = 201
  /\ \E n \in Created(last) :
       /\ derive_slug(n.title) = SpicyChicken
       /\ n.slug = Suffixed(SpicyChicken, 2)
  /\ \E x, y \in recipes : x.slug = SpicyChicken /\ y.slug = Suffixed(SpicyChicken, 1)

\* every run of whitespace replaced by a single hyphen
RECURSIVE hyphenate_whitespace(_)
hyphenate_whitespace(s) ==
  IF s = <<>> THEN s
  ELSE IF s[1] \in WhiteSpace
    THEN IF Len(s) > 1 /\ s[2] \in WhiteSpace
           THEN hyphenate_whitespace(Tail(s))
           ELSE <<"-">> \o hyphenate_whitespace(Tail(s))
  ELSE <<s[1]>> \o hyphenate_whitespace(Tail(s))

\* the reference derivation: lowercase, whitespace runs to one hyphen, only
\* [a-z0-9-] kept, repeated hyphens collapsed, hyphens trimmed at both ends
deriveSlug(text) ==
  strip_hyphens(collapse_hyphens(strip_special(hyphenate_whitespace(lower(text)))))

\* the exchange stored a slug derived from the title of its body: a
\* successful create, or a successful update that changed the title
DerivedFromBody(ex) ==
  /\ ~ex.body.empty /\ Has(ex.body, "title")
  /\ \/ ex.op = "recipe_post" /\ ex.status = 201
     \/ /\ ex.op = "recipe_put" /\ ex.status = 200
        /\ \E r \in recipes : r.id = ex.rid /\ r.title # ex.body.data.title

\* C12: the slug stored for an accepted title, on create and on update, is
\* the reference deriveSlug of the title, or that candidate with the
\* numeric suffix of the collision resolution.
C12_SlugCandidateIsDeriveSlug ==
  [][ DerivedFromBody(last')
      => \A n \in recipes' :
           n.id = last'.rid
           => LET b == deriveSlug(last'.body.data.title)
              IN  n.slug = b \/ \E k \in 1 .. MaxSeqRecipeId : n.slug = Suffixed(b, k) ]_vars

\* the categories other than the one the exchange addresses (on a create:
\* all of them)
OtherCategories(ex) ==
  {c \in categories : ex.op = "category_post" \/ c.id # ex.xid}

\* an admin creates a category, or renames an existing one, with a valid
\* name no other category has, whose derived slug another category has
CategorySlugCollision(ex) ==
  /\ ex.op \in {"category_post", "category_put"}
  /\ \E u \in TokenUser(ex.tok) : u.is_admin
  /\ ex.op = "category_put" => \E c \in categories : c.id = ex.xid
  /\ ~ex.body.empty /\ category_create_valid(ex.body)
  /\ \A c \in OtherCategories(ex) : c.name # ex.body.data.name
  /\ \E c \in OtherCategories(ex) : c.slug = deriveSlug(ex.body.data.name)

\* C13: creating or renaming a category with an unused name whose derived
\* slug another category has succeeds and stores the slug with a numeric
\* suffix, made of characters of [a-z0-9-] only.
C13_CategorySlugSuffixed ==
  [][ CategorySlugCollision(last')
      => /\ last'.status \in {200, 201}
         /\ \A n \in categories' :
              n.id = last'.xid
              => /\ \E k \in 1 .. MaxCategoryId :
                      n.slug = Suffixed(deriveSlug(last'.body.data.name), k)
                 /\ \A i \in 1 .. Len(n.slug) : slug_char(n.slug[i]) ]_vars

\* the step commits a create or a title-changing update whose slug was free
\* at its check and belongs to another recipe now
LosesAtUniqueSlug ==
  LET req == pend["w1"]
  IN  /\ req.op \in {"recipe_post", "recipe_put"}
      /\ pend'["w1"] = Idle
      /\ "slug" \in DOMAIN req.row
      /\ req.op = "recipe_put" => \E r \in recipes : r.id = req.rid
      /\ \E r \in recipes : r.slug = req.row.slug /\ r.id # req.rid

\* C14: of two recipe creations or title-changing updates that pass the slug
\* check with the same slug before either commits, the one that loses at the
\* unique constraint is answered 400, the duplicate error, and not 500.
C14_SlugRaceLoserIs400 ==
  [][ LosesAtUniqueSlug => last'.status = 400 ]_vars

\* a user has the username or the email of the exchange's body
ReusesUser(ex) ==
  \E u \in users : u.username = ex.body.data.username \/ u.email = ex.body.data.email

\* the response to a registration with a body the schema accepts
ValidRegistration(ex) ==
  ex.op = "register" /\ ~ex.body.empty /\ registration_valid(ex.body)

\* C15: no two users share a username and no two share an email; a valid
\* registration with an unused username and an unused email is answered 201
\* and adds one user with these, and one that reuses a username or an email,
\* found by the check or at the commit, is answered 400 and adds no user.
C15_RegistrationUnique ==
  /\ [](\A x, y \in users : (x.username = y.username \/ x.email = y.email) => x = y)
  /\ [][ ValidRegistration(last')
         => IF ReusesUser(last')
              THEN last'.status = 400 /\ users' = users
              ELSE /\ last'.status = 201
                   /\ \E n \in users' \ users :
                        /\ users' = users \cup {n}
                        /\ n.id = last'.xid
                        /\ n.username = last'.body.data.username
                        /\ n.email = last'.body.data.email ]_vars

\* a registration passed the existing-user check and lost at the commit to
\* one with the same username and another email
C15_Witness ==
  /\ last.op = "register" /\ last.status = 400
  /\ last.msg = "User with this email or username already exists"
  /\ \E u \in users : /\ u.username = last.body.data.username
                      /\ u.email # last.body.data.email

\* the ratings stored for the recipe of the exchange
RatingsNamed(ex) == {x \in ratings : x.recipe_id = ex.rid}

RECURSIVE SumOfScores(_)
SumOfScores(rows) ==
  IF rows = {} THEN 0
  ELSE LET x == CHOOSE r \in rows : TRUE IN x.score + SumOfScores(rows \ {x})

\* h hundredths is sum / count rounded to two decimals: no other number of
\* hundredths is nearer to the quotient
IsRounded(h, sum, count) ==
  /\ 2 * (100 * sum - h * count) <= count
  /\ 2 * (h * count - 100 * sum) <= count

\* the average is absent without ratings, and else the rounded mean of the
\* scores stored now
AverageOf(avg, rows) ==
  IF rows = {} THEN avg = PyNone
  ELSE avg.t = "float" /\ IsRounded(avg.v, SumOfScores(rows), Cardinality(rows))

\* C16: the average reported by the stats endpoint and by the recipe
\* response field average_rating is absent when the recipe has no ratings
\* and otherwise the sum of its current scores divided by their count,
\* rounded to 2 decimals.  (Both are reads: the ratings are the stored ones.)
C16_AverageRating ==
  (last.op \in {"rating_stats", "recipe_get"} /\ last.status = 200)
  => AverageOf(last.body.data.average_rating, RatingsNamed(last))

\* an average that needed rounding up: 5, 5 and 4 give 4.67
C16_Witness ==
  /\ last.op = "recipe_get" /\ last.status = 200
  /\ Cardinality(RatingsNamed(last)) = 3 /\ SumOfScores(RatingsNamed(last)) = 14
  /\ last.body.data.average_rating = PyFloat(467)

\* the sum of the five buckets of a distribution
BucketSum(d) == d[1] + d[2] + d[3] + d[4] + d[5]

\* C17: every stored rating has an integer score in 1..5, and the five
\* distribution buckets the stats endpoint returns for a recipe sum to
\* total_ratings, the number of ratings stored for the recipe.
C17_ScoresAndDistribution ==
  /\ \A x \in ratings : x.score \in 1 .. 5
  /\ (last.op = "rating_stats" /\ last.status = 200)
       => /\ BucketSum(last.body.data.distribution) = last.body.data.total_ratings
          /\ last.body.data.total_ratings = Cardinality(RatingsNamed(last))

\* the statistics of a recipe with ratings in more than one bucket
C17_Witness ==
  /\ last.op = "rating_stats" /\ last.status = 200
  /\ last.body.data.total_ratings = 3
  /\ last.body.data.distribution[5] = 2 /\ last.body.data.distribution[1] = 1

\* C18: a successful DELETE of recipe r removes r, every ingredient and
\* every rating whose recipe_id is r, and nothing else: the other recipes,
\* their ingredients and ratings, the users and the categories stay.
C18_DeleteCascadesOnly ==
  [][ (last'.op = "recipe_delete" /\ last'.status = 200)
      => /\ \E r \in recipes : r.id = last'.rid
         /\ recipes' = {r \in recipes : r.id # last'.rid}
         /\ ingredients' = {i \in ingredients : i.recipe_id # last'.rid}
         /\ ratings' = {x \in ratings : x.recipe_id # last'.rid}
         /\ users' = users /\ categories' = categories ]_vars

\* a recipe was deleted with its ingredient and its rating (the rows with
\* primary key 1), and the other recipe has its ingredient and rating
C18_Witness ==
  /\ last.op = "recipe_delete" /\ last.status = 200
  /\ Cardinality(recipes) = 1
  /\ \E i \in ingredients : i.id = 2 /\ i.recipe_id # last.rid
  /\ \E x \in ratings : x.id = 2 /\ x.recipe_id # last.rid
  /\ \A i \in ingredients : i.id # 1
  /\ \A x \in ratings : x.id # 1

\* C19: DELETE of a category by an admin while a recipe has its id as
\* category_id is answered 400 and leaves the category and all recipes
\* unchanged; the delete succeeds only when no recipe references the category.
C19_CategoryDeleteGuard ==
  [][ (/\ last'.op = "category_delete"
       /\ \E u \in TokenUser(last'.tok) : u.is_admin
       /\ \E c \in categories : c.id = last'.xid)
      => IF \E r \in recipes : r.category_id = last'.xid
           THEN /\ last'.status = 400
                /\ categories' = categories /\ recipes' = recipes
           ELSE /\ last'.status = 200
                /\ categories' = {c \in categories : c.id # last'.xid}
                /\ recipes' = recipes ]_vars

\* an admin was refused the delete of the category the recipes are filed
\* under, while another category exists
C19_Witness ==
  /\ last.op = "category_delete" /\ last.status = 400
  /\ \E u \in TokenUser(last.tok) : u.is_admin
  /\ \E r \in recipes : r.category_id = last.xid
  /\ \E c \in categories : c.id = last.xid
  /\ \E c \in categories : c.id # last.xid

\* C20: in a successful bulk create every submitted item without order is
\* stored with order equal to its zero-based position in the submitted
\* array, and an item with order keeps the order it specifies.
C20_BulkOrderIsPosition ==
  [][ (last'.op = "ingredient_bulk" /\ last'.status = 201)
      => LET items == last'.body.data.ingredients
         IN  \A k \in 1 .. Len(items) :
               \E n \in ingredients' \ ingredients :
                 /\ n.name = items[k].name /\ n.quantity = items[k].quantity
                 /\ n.order = IF "order" \in DOMAIN items[k]
                                THEN items[k].order ELSE PyInt(k - 1) ]_vars

\* the exchange's caller owns the recipe of its path or is an admin
CallerIsOwnerOrAdmin(ex) ==
  \E u \in TokenUser(ex.tok) :
    u.is_admin \/ \E r \in Named(ex) : r.user_id = u.id

\* the field constraints of an ingredient: a name of 1 to 100 characters, a
\* quantity of 1 to 50 characters, an order that is not negative
FieldsOk(name, quantity, order) ==
  /\ Len(name) \in 1 .. 100
  /\ Len(quantity) \in 1 .. 50
  /\ order.t = "int" /\ order.v >= 0

\* a submitted item a create accepts
ValidItem(item) ==
  /\ {"name", "quantity"} \subseteq DOMAIN item
  /\ FieldsOk(item.name, item.quantity,
              IF "order" \in DOMAIN item THEN item.order ELSE PyInt(0))

\* the rows are the submitted items: as many rows as items, and of every
\* name and quantity as many rows as items
StoresExactly(rows, items) ==
  /\ Cardinality(rows) = Len(items)
  /\ \A k \in 1 .. Len(items) :
       Cardinality({n \in rows : n.name = items[k].name
                                   /\ n.quantity = items[k].quantity})
         = Cardinality({j \in 1 .. Len(items) :
                          /\ items[j].name = items[k].name
                          /\ items[j].quantity = items[k].quantity})

C22_BulkUpdateAtMost50 ==
  [][ (/\ last'.op = "ingredient_bulk_update"
       /\ ~last'.body.empty /\ Has(last'.body, "ingredients")
       /\ Len(last'.body.data.ingredients) > 50)
      => (last'.status # 200 /\ ingredients' = ingredients) ]_vars

\* the statuses of an error response
ErrorStatuses == {400, 401, 403, 404, 422, 500}

\* C23: a request answered with an error status leaves the users, the
\* categories, the recipes, the ingredients and the ratings as they were.
C23_ErrorsChangeNothing ==
  [][ last'.status \in ErrorStatuses => db' = db ]_vars

\* the administrators the database starts with
InitialAdmins == {u \in SeedUsers : u.is_admin}

\* C24: the admins of every reachable state are the admins of the initial
\* state; no request deletes a user or changes one, and every user a
\* registration creates has is_admin = false.
C24_AdminFlagImmutable ==
  /\ []({u \in users : u.is_admin} = InitialAdmins)
  /\ [][ /\ users \subseteq users'
         /\ \A n \in users' \ users :
              /\ ~n.is_admin
              /\ last'.op = "register" /\ last'.status = 201 ]_vars

\* a registered user, who is not an admin, was refused the creation of a
\* category, after a registration that asked for the flag was refused
C24_Witness ==
  /\ last.op = "category_post" /\ last.status = 403
  /\ \E u \in TokenUser(last.tok) : u \notin InitialAdmins /\ ~u.is_admin

\* the slug a title is stored with beside the slugs taken: the derived slug
\* when it is free, else the derived slug with the smallest free suffix
SlugBeside(title, taken) ==
  LET b == derive_slug(title)
  IN  IF b \notin taken THEN b
      ELSE Suffixed(b, CHOOSE k \in 1 .. (Cardinality(taken) + 1) :
                         /\ Suffixed(b, k) \notin taken
                         /\ \A j \in 1 .. (k - 1) : Suffixed(b, j) \in taken)

\* C25: a successful PUT of a recipe without a title, or with the title the
\* recipe has, leaves its slug unchanged; with another title the slug is
\* chosen beside the slugs of the other recipes only, so that a title whose
\* derived slug is the recipe's own slug keeps that slug without a suffix.
C25_SlugChangesWithTitle ==
  [][ (last'.op = "recipe_put" /\ last'.status = 200)
      => \A old \in recipes : \A new \in recipes' :
           (old.id = last'.rid /\ new.id = last'.rid)
           => IF Has(last'.body, "title") /\ last'.body.data.title # old.title
                THEN /\ new.slug = SlugBeside(last'.body.data.title,
                                               {r.slug : r \in recipes \ {old}})
                     /\ derive_slug(last'.body.data.title) = old.slug
                          => new.slug = old.slug
                ELSE new.slug = old.slug ]_vars

\* a recipe given the title "a  b" has the slug "a-b" while another recipe
\* has "a-b-1": its own slug did not count as taken
C25_Witness ==
  /\ last.op = "recipe_put" /\ last.status = 200
  /\ Has(last.body, "title") /\ last.body.data.title = <<"a", " ", " ", "b">>
  /\ \E r \in recipes : /\ r.id = last.rid /\ r.title = last.body.data.title
                         /\ r.slug = <<"a", "-", "b">>
  /\ \E r \in recipes : r.id # last.rid /\ r.slug = <<"a", "-", "b", "-", "1">>

\* C26: every recipe's category_id is the id of a stored category, in every
\* reachable state, also when a create or a category_id update that passed
\* its category-exists check commits after the category was deleted.
C26_RecipeCategoryExists ==
  \A r \in recipes : \E c \in categories : c.id = r.category_id


\* the read endpoints whose response carries recipes, and those whose
\* response carries a recipe's title or ingredients
ListReads == {"recipe_list", "recipes_by_user", "recipes_by_category"}
PathReads == {"ingredient_list", "ingredient_get", "rating_list", "rating_stats"}

\* the stored recipes of which a field, or an ingredient, is in the response
Shown(ex) ==
  IF ex.status # 200 THEN {}
  ELSE IF ex.op \in ListReads THEN {r \in recipes : r \in ex.body.data.recipes}
  ELSE IF ex.op = "recipe_get" THEN {r \in recipes : r = ex.body.data.recipe}
  ELSE IF ex.op \in PathReads THEN Named(ex)
  ELSE {}

\* C27: no response of a read endpoint to a caller who is anonymous, or who
\* is neither owner nor admin, carries a field of an unpublished recipe or of
\* its ingredients (so such a caller cannot tell whether the unpublished
\* recipe is stored).
C27_UnpublishedNotShown ==
  \A r \in Shown(last) : ~r.is_published => ~NotOwnerNorAdminOf(r, last)

\* the requests on one ingredient and on one rating
IngredientItemOps == {"ingredient_get", "ingredient_put", "ingredient_delete"}
RatingItemOps == {"rating_get", "rating_put", "rating_delete"}

\* the exchange names, under the recipe of its path, a stored ingredient or
\* rating of another recipe
OffPath(ex) ==
  \/ /\ ex.op \in IngredientItemOps
     /\ \E i \in ingredients : i.id = ex.xid /\ i.recipe_id # ex.rid
  \/ /\ ex.op \in RatingItemOps
     /\ \E x \in ratings : x.id = ex.xid /\ x.recipe_id # ex.rid

\* a bulk-update changes no ingredient of a recipe other than its path's
BulkStaysUnderPath ==
  last'.op = "ingredient_bulk_update"
    => \A i \in ingredients : i.recipe_id # last'.rid => i \in ingredients'

\* C28 as stated: a request on an ingredient or rating through the path of a
\* recipe it does not belong to is answered 404 and changes nothing, and a
\* bulk-update modifies no ingredient of another recipe.
C28_OffPathIs404 ==
  [][ /\ OffPath(last') => last'.status = 404 /\ db' = db
      /\ BulkStaysUnderPath ]_vars

\* C28, amended: such a request changes nothing and is answered 404, unless
\* the handler refuses it before the lookup: 401 to a PUT or DELETE without a
\* valid token, 403 to an ingredient PUT or DELETE by a caller the handler
\* does not take for the owner or an admin of the path's recipe; and a
\* bulk-update modifies no ingredient of another recipe.
C28_OffPathRefused ==
  [][ /\ OffPath(last')
         => /\ db' = db
            /\ \/ last'.status = 404
               \/ /\ last'.status = 401
                  /\ last'.op \notin {"ingredient_get", "rating_get"}
                  /\ ~jwt_ok(last'.tok)
               \/ /\ last'.status = 403
                  /\ last'.op \in {"ingredient_put", "ingredient_delete"}
                  /\ ~\E u \in TokenUser(last'.tok) : u.is_admin
      /\ BulkStaysUnderPath ]_vars

\* an admin's PUT of a stored ingredient through the other recipe's path was
\* answered 404
C28_Witness ==
  /\ last.op = "ingredient_put" /\ last.status = 404
  /\ \E u \in TokenUser(last.tok) : u.is_admin
  /\ \E i \in ingredients : i.id = last.xid /\ i.recipe_id # last.rid

\* C29: every stored ingredient satisfies the field constraints of the
\* ingredient schemas: a name of 1 to 100 characters, a quantity of 1 to 50
\* characters, an order that is an integer and not negative.
C29_StoredFieldsValid ==
  \A i \in ingredients : FieldsOk(i.name, i.quantity, i.order)

\* the characters of a slug
SlugAlphabet == {LowerCase[k] : k \in 1 .. Len(LowerCase)} \cup Digits \cup {"-"}

\* a well-formed slug: not empty, of these characters, no hyphen at either
\* end and no two hyphens in a row
WellFormed(slug) ==
  /\ slug # <<>>
  /\ \A i \in 1 .. Len(slug) : slug[i] \in SlugAlphabet
  /\ slug[1] # "-" /\ slug[Len(slug)] # "-"
  /\ \A i \in 1 .. Len(slug) - 1 : ~(slug[i] = "-" /\ slug[i + 1] = "-")

\* C30: every stored recipe's slug is well-formed, whatever accepted title it
\* was derived from and whatever suffix it was given.
C30_SlugWellFormed == \A r \in recipes : WellFormed(r.slug)
====
